---------------------------- MODULE Spec2Model ----------------------------
(***************************************************************************)
(* Model of the monetization pipeline of amzpilot-ai (src/utils.ts and     *)
(* src/components/SitemapScanner.tsx).                                     *)
(*                                                                         *)
(* The module holds one state machine per component.  Every component owns *)
(* a group of variables; a specification runs one component and keeps the  *)
(* variables of the others at their idle values:                           *)
(*   SpecRunner      runConcurrent with an arbitrary worker                *)
(*   SpecClassifier  calculatePostPriority                                 *)
(*   SpecCache       CacheService over localStorage                        *)
(*   SpecMutator     generateProductBoxHtml / insertIntoContent            *)
(*   SpecAnalyze     analyzeContentAndFindProduct, generateAIContent,      *)
(*                   withRetry                                             *)
(*   SpecPipeline    runAutonomousPipeline over runConcurrent              *)
(*   SpecStop        runAutonomousPipeline with the STOP button            *)
(*   SpecProgress    runAutonomousPipeline with the timer of its progress  *)
(*   SpecTriage      runPriorityAnalysis                                   *)
(*   SpecHandlers    either handler of the scanner on its own              *)
(*   SpecScanner     both handlers and the buttons of the scanner          *)
(*   SpecProxy       fetchWithProxy                                        *)
(*   SpecRawPost     fetchRawPostContent                                   *)
(*   SpecPush        pushToWordPress                                       *)
(*   SpecAnalyzeAgain  analyzeContentAndFindProduct called twice           *)
(*   SpecRendered    insertIntoContent on rendered content                 *)
(*   SpecMounted     the runs of the pipeline from the mounted component   *)
(*   SpecRuns        one run of the pipeline after the other               *)
(*   SpecOverlap     both handlers of the mounted component                *)
(*   SpecReset       the reset button while the handlers run               *)
(*   SpecEditor      the init effect of the editor                         *)
(*   SpecContext     insertIntoContent with context_match and a snippet    *)
(*   SpecMapped      mapToProduct and the confidence of the answer         *)
(*   SpecPages       fetchPageContent over the cache                       *)
(*   SpecLimits      runAutonomousPipeline with any concurrency limit      *)
(***************************************************************************)
EXTENDS Integers, Sequences, FiniteSets, TLC

VARIABLES
    \* ---- runConcurrent (src/utils.ts 150-172)
    rcItems,        \* items.length
    rcConcurrency,  \* the concurrency argument
    rcI,            \* the loop variable i
    rcPc,           \* "loop" | "await" | "sleep" | "done"
    rcTask,         \* index -> "new" | "running" | "value" | "null" | "threw"
    rcCalls,        \* index -> number of times fn(item) was invoked
    rcResults,      \* the results array (indices of the items whose value was kept)
    \* ---- calculatePostPriority (src/utils.ts 87-114)
    clTitle,        \* the title argument, a sequence of text fragments
    clHtml,         \* the html argument, a sequence of text fragments
    clPc,           \* "call" before the call, "returned" after it
    clResult,       \* the returned {priority, type, status}
    \* ---- CacheService over localStorage (src/utils.ts 26-57)
    lsStore,        \* localStorage: key -> NoItem or {timestamp, data}
    caNow,          \* Date.now(), in milliseconds since the first call
    caSteps,        \* number of steps taken (bounds the exploration)
    caLast,         \* the last CacheService call: its arguments and what it returned
    \* ---- generateProductBoxHtml / insertIntoContent (src/utils.ts 580-771)
    muContent,      \* the content C the first call is given
    muMethod,       \* the InsertionMethod of both calls
    muSnippet,      \* the contextSnippet argument ('': none)
    muBoxes,        \* the fragments generated so far (boxA, then boxB)
    muHtml,         \* the current content
    muCalls,        \* number of insertIntoContent calls made
    \* ---- analyzeContentAndFindProduct (src/utils.ts 414-551)
    anOptions,      \* the options argument
    anHtml,         \* the htmlContent argument, a sequence of text fragments
    anConfig,       \* config.aiProvider, config.aiApiKey, process.env.API_KEY
    anPc,           \* "start" | "attempt" | "sleep" | "done"
    anRetries,      \* the retries argument of the current withRetry call
    anDelay,        \* the delay argument of the current withRetry call
    anLog,          \* how each run of the provider call ended
    anCaught,       \* the catch block of analyzeContentAndFindProduct ran
    anRequest,      \* what the prompt asks for
    anResult,       \* the returned {product, detectedProducts, confidence}
    \* ---- runAutonomousPipeline (src/components/SitemapScanner.tsx 110-178)
    ppConfig,       \* config.wpUrl, .autoPublishThreshold, .concurrencyLimit
    ppFullyAuto,    \* isFullyAuto as the closure of the run holds it
    ppStopSignal,   \* stopSignal as the closure of the run holds it
    ppSaved,        \* savedState.posts when the run starts
    ppTargets,      \* targets: the pages to process, in order
    ppPosts,        \* postMap: page -> post
    ppPhase,        \* "idle" | "refused" | "await" | "sleep" | "done"
    ppI,            \* the loop variable i of runConcurrent
    ppAt,           \* page -> where its worker is: "none" | "fetch" | "analyze" |
                    \*         "publish" | "settled"
    ppPage,         \* page -> what fetchPageContent resolved with
    ppAnalysis,     \* page -> what analyzeContentAndFindProduct resolved with
    ppRequests,     \* page -> the publish requests sent for it
    ppResponse,     \* page -> how the CMS answered: "none" | "ok" | "401" | ...
    ppTimer,        \* the pending timers of triggerUIUpdate: the time since setTimeout
    ppSince,        \* the time since the last run of the timer's callback
    ppSink,         \* the onStateChange calls of the run, in order
    \* ---- runPriorityAnalysis (src/components/SitemapScanner.tsx 45-100)
    trStopSignal,   \* stopSignal as the closure of the analysis holds it
    trArg,          \* the posts argument
    trMap,          \* postMap: page -> post
    trTargets,      \* highValueTargets, in order
    trPhase,        \* "idle" | "await" | "sleep" | "done"
    trI,            \* the loop variable i of runConcurrent
    trAt,           \* page -> where its worker is: "none" | "fetch" | "settled"
    trPage,         \* page -> what fetchPageContent resolved with
    trProcessed,    \* processed
    \* ---- SitemapScanner (src/components/SitemapScanner.tsx 14-22)
    scPosts,        \* savedState.posts, the state the parent holds
    scStatus,       \* status: "idle" | "scanning" | "analyzing" | "processing"
    scStop,         \* stopSignal
    \* ---- fetchWithProxy (src/utils.ts 175-199)
    pxPreferred,    \* preferredProxyIndex
    pxCalls,        \* per call: orderedProxies, the position i in it, the
                    \* relays tried with what they did, the number of
                    \* successes logged before the call, and its result:
                    \* "pending" | "response" | "error"
    pxLog,          \* the relays that have answered ok, in order of time
    \* ---- fetchRawPostContent (src/utils.ts 336-385)
    frPostId,       \* postId
    frPostUrl,      \* postUrl, as its path segments; <<>> when absent
    frCached,       \* CacheService.get(cacheKey) holds a result
    frPc,           \* "idle" | "byId" | "resolve" | "retry" | "page" | "done"
    frRealId,       \* realId
    frPaths,        \* the requests made, each with what came of it
    frResult,       \* what the call returned or threw
    \* ---- pushToWordPress (src/utils.ts 553-578)
    pwUrl,          \* config.wpUrl
    pwLocation,     \* window.location
    pwPostId,       \* postId
    pwPc,           \* "idle" | "fetch" | "done"
    pwOutcome,      \* how the fetch settled
    pwResult,       \* what the call returned or threw
    \* ---- analyzeContentAndFindProduct called again (src/utils.ts 414-551)
    acCalls,        \* the calls made with the arguments, the one under way included
    acFirst,        \* what the first call returned
    \* ---- the init effect of the editor (src/components/LandingPage.tsx 160-213)
    edPost,         \* the post prop
    edProduct,      \* product
    edManualAsin,   \* manualAsin
    edRawContent,   \* rawContent
    edInits,        \* the init() calls: their post, position and isMounted
    edSwitches,     \* the posts the operator has switched to
    \* ---- the single-product answer (src/utils.ts 494-540)
    mpD,            \* data, the parsed response of the model
    mpOptions,      \* manualAsin and manualImage (trimmed), options.fallbackImage
    mpPc,           \* "off" | "parsed" | "mapped" | "done"
    mpProduct,      \* prod
    mpConfidence    \* the confidence returned

rcVars == <<rcItems, rcConcurrency, rcI, rcPc, rcTask, rcCalls, rcResults>>
clVars == <<clTitle, clHtml, clPc, clResult>>
caVars == <<lsStore, caNow, caSteps, caLast>>
muVars == <<muContent, muMethod, muSnippet, muBoxes, muHtml, muCalls>>
anVars == <<anOptions, anHtml, anConfig, anPc, anRetries, anDelay, anLog, anCaught,
            anRequest, anResult>>
ppVars == <<ppConfig, ppFullyAuto, ppStopSignal, ppSaved, ppTargets, ppPosts, ppPhase, ppI,
            ppAt, ppPage, ppAnalysis, ppRequests, ppResponse, ppTimer, ppSince, ppSink>>
trVars == <<trStopSignal, trArg, trMap, trTargets, trPhase, trI, trAt, trPage, trProcessed>>
scVars == <<scPosts, scStatus, scStop>>
pxVars == <<pxPreferred, pxCalls, pxLog>>
frVars == <<frPostId, frPostUrl, frCached, frPc, frRealId, frPaths, frResult>>
pwVars == <<pwUrl, pwLocation, pwPostId, pwPc, pwOutcome, pwResult>>
netVars == <<pxVars, frVars, pwVars>>
acVars == <<acCalls, acFirst>>
edVars == <<edPost, edProduct, edManualAsin, edRawContent, edInits, edSwitches>>
mpVars == <<mpD, mpOptions, mpPc, mpProduct, mpConfidence>>
extVars == <<acVars, edVars, mpVars>>

vars == <<rcVars, clVars, caVars, muVars, anVars, ppVars, trVars, scVars, netVars, extVars>>

\* what each component leaves alone
rcOthers == <<clVars, caVars, muVars, anVars, ppVars, trVars, scVars, netVars, extVars>>
clOthers == <<rcVars, caVars, muVars, anVars, ppVars, trVars, scVars, netVars, extVars>>
caOthers == <<rcVars, clVars, muVars, anVars, ppVars, trVars, scVars, netVars, extVars>>
muOthers == <<rcVars, clVars, caVars, anVars, ppVars, trVars, scVars, netVars, extVars>>
anOthers == <<rcVars, clVars, caVars, muVars, ppVars, trVars, scVars, netVars, extVars>>
\* the handlers of the scanner write scVars themselves
ppOthers == <<rcVars, clVars, caVars, muVars, anVars, trVars, netVars, extVars>>
trOthers == <<rcVars, clVars, caVars, muVars, anVars, ppVars, netVars, extVars>>
scOthers == <<rcVars, clVars, caVars, muVars, anVars, ppVars, trVars, netVars, extVars>>
pxOthers == <<rcVars, clVars, caVars, muVars, anVars, ppVars, trVars, scVars, frVars, pwVars, extVars>>
frOthers == <<rcVars, clVars, caVars, muVars, anVars, ppVars, trVars, scVars, pxVars, pwVars, extVars>>
\* a later call writes the state of the call itself
acOthers == <<rcVars, clVars, caVars, muVars, ppVars, trVars, scVars, netVars, edVars, mpVars>>
edOthers == <<rcVars, clVars, caVars, muVars, anVars, ppVars, trVars, scVars, netVars, acVars,
              mpVars>>
mpOthers == <<rcVars, clVars, caVars, muVars, anVars, ppVars, trVars, scVars, netVars, acVars,
              edVars>>
pwOthers == <<rcVars, clVars, caVars, muVars, anVars, ppVars, trVars, scVars, pxVars, frVars, extVars>>

(***************************************************************************)
(* Bounds of the model.                                                    *)
(***************************************************************************)
MaxItems == 4
MaxConcurrency == 3
MaxTitleLen == 2
MaxHtmlLen == 2
MaxCacheSteps == 5
MaxBlocks == 3
MaxPosts == 2
MaxScanPosts == 1
MaxIdlePasses == 3

(***************************************************************************)
(* Helpers.                                                                *)
(***************************************************************************)
Min(a, b) == IF a < b THEN a ELSE b

RECURSIVE SeqFilterIdx(_, _, _)
\* the indices lo..hi-1 (in order) that satisfy keep[_]
SeqFilterIdx(lo, hi, keep) ==
    IF lo >= hi THEN <<>>
    ELSE (IF keep[lo] THEN <<lo>> ELSE <<>>) \o SeqFilterIdx(lo + 1, hi, keep)

(***************************************************************************)
(* runConcurrent.  Items are numbered 0..rcItems-1 as queue[index].        *)
(***************************************************************************)
\* mutant: the window takes one item too many (slice(i, i + concurrency + 1))
ChunkOf_OneMore(i, concurrency, len) == { k \in 0..(len - 1) : i <= k /\ k <= i + concurrency }

\* the place in an array of length len that slice takes an index for: a
\* negative index counts from the end
SliceIndex(x, len) == IF x < 0 THEN (IF len + x < 0 THEN 0 ELSE len + x) ELSE Min(x, len)

\* queue.slice(i, i + concurrency): the indices of the window starting at i
ChunkOf(i, concurrency, len) ==
    { k \in 0..(len - 1) : SliceIndex(i, len) <= k /\ k < SliceIndex(i + concurrency, len) }

rcChunk == ChunkOf(rcI, rcConcurrency, rcItems)

rcIdle ==
    /\ rcItems = 0
    /\ rcConcurrency = 0
    /\ rcI = 0
    /\ rcPc = "off"
    /\ rcTask = <<>>
    /\ rcCalls = <<>>
    /\ rcResults = <<>>

rcInit ==
    /\ rcItems \in 0..MaxItems
    /\ rcConcurrency \in 0..MaxConcurrency
    /\ rcI = 0
    /\ rcPc = "loop"
    /\ rcTask = [k \in 0..(rcItems - 1) |-> "new"]
    /\ rcCalls = [k \in 0..(rcItems - 1) |-> 0]
    /\ rcResults = <<>>

\* for (...; i < queue.length; ...) { chunk = queue.slice(i, i + concurrency);
\*   Promise.all(chunk.map(async ... fn(item) ...)) }: every worker of the window
\* is invoked before the loop awaits.
rcDispatch ==
    /\ rcPc = "loop"
    /\ rcI < rcItems
    /\ rcTask' = [k \in DOMAIN rcTask |-> IF k \in rcChunk THEN "running" ELSE rcTask[k]]
    /\ rcCalls' = [k \in DOMAIN rcCalls |-> IF k \in rcChunk THEN rcCalls[k] + 1 ELSE rcCalls[k]]
    /\ rcPc' = "await"
    /\ UNCHANGED <<rcItems, rcConcurrency, rcI, rcResults>>

\* mutant: no try/catch around fn(item): a throw rejects Promise.all and the
\* rejection leaves runConcurrent at once
rcSettle_NoCatch(k, outcome) ==
    /\ rcPc = "await"
    /\ k \in DOMAIN rcTask
    /\ rcTask[k] = "running"
    /\ rcTask' = [rcTask EXCEPT ![k] = outcome]
    /\ rcPc' = IF outcome = "threw" THEN "done" ELSE rcPc
    /\ UNCHANGED <<rcItems, rcConcurrency, rcI, rcCalls, rcResults>>

\* the promise fn(item) settles: with a value, with null, or by throwing
\* (the catch of line 163 turns a throw into null)
rcSettle(k, outcome) ==
    /\ rcPc = "await"
    /\ k \in DOMAIN rcTask
    /\ rcTask[k] = "running"
    /\ rcTask' = [rcTask EXCEPT ![k] = outcome]
    /\ UNCHANGED <<rcItems, rcConcurrency, rcI, rcPc, rcCalls, rcResults>>

\* Promise.all resolves; results.push(...chunkResults.filter(r => r !== null))
rcCollect ==
    /\ rcPc = "await"
    /\ \A k \in rcChunk : rcTask[k] # "running"
    /\ rcResults' = rcResults \o
          SeqFilterIdx(rcI, Min(rcI + rcConcurrency, rcItems),
                       [k \in DOMAIN rcTask |-> rcTask[k] = "value"])
    /\ rcPc' = "sleep"
    /\ UNCHANGED <<rcItems, rcConcurrency, rcI, rcTask, rcCalls>>

\* await sleep(50) ends; i += concurrency
rcWake ==
    /\ rcPc = "sleep"
    /\ rcI' = rcI + rcConcurrency
    /\ rcPc' = "loop"
    /\ UNCHANGED <<rcItems, rcConcurrency, rcTask, rcCalls, rcResults>>

\* the loop condition fails: return results
rcReturn ==
    /\ rcPc = "loop"
    /\ rcI >= rcItems
    /\ rcPc' = "done"
    /\ UNCHANGED <<rcItems, rcConcurrency, rcI, rcTask, rcCalls, rcResults>>

rcNext ==
    \/ rcDispatch /\ UNCHANGED rcOthers
    \/ \E k \in 0..(MaxItems - 1), outcome \in {"value", "null", "threw"} :
          rcSettle(k, outcome) /\ UNCHANGED rcOthers
    \/ rcCollect /\ UNCHANGED rcOthers
    \/ rcWake /\ UNCHANGED rcOthers
    \/ rcReturn /\ UNCHANGED rcOthers

(***************************************************************************)
(* Text.  A string is a sequence of fragments; a fragment is a run of      *)
(* characters that the patterns of the code match as a whole or not at     *)
(* all.  StrLen gives String.length, Lower gives toLowerCase.              *)
(***************************************************************************)
\* html.length > 1500 (src/utils.ts 109)
MinContentLength == 1500

Lower(t) ==
    CASE t = "Best" -> "best"
      [] t = "REVIEW" -> "review"
      [] t = "AMZN.TO/" -> "amzn.to/"
      [] OTHER -> t

FragLen(t) ==
    CASE t = "amazon.com/" -> 11
      [] t \in {"amzn.to/", "AMZN.TO/"} -> 8
      [] t = "tag=" -> 4
      [] t = "c" -> 1
      [] t = "filler" -> MinContentLength
      [] t \in {"B0MANUAL01", "B0AI000001", "B0HTML0001"} -> 10
      [] t = "/dp/B0HTML0001" -> 14
      [] OTHER -> 1

RECURSIVE StrLen(_)
StrLen(s) == IF s = <<>> THEN 0 ELSE FragLen(Head(s)) + StrLen(Tail(s))

\* s.includes(w), for a word w that is one fragment
Includes(s, w) == \E i \in 1..Len(s) : s[i] = w

ToLowerCase(s) == [i \in 1..Len(s) |-> Lower(s[i])]

\* all sequences over S of length at most n
SeqsUpTo(S, n) == UNION { [1..m -> S] : m \in 0..n }

\* /amazon\.com\/|amzn\.to\/|tag=/i.test(html)
AffiliateMarkers == {"amazon.com/", "amzn.to/", "tag="}

HasAffiliatePattern(html) == \E i \in 1..Len(html) : Lower(html[i]) \in AffiliateMarkers

\* mutant: no content counts as monetized
checkForAffiliateLinks_Never(html) == FALSE

\* checkForAffiliateLinks
checkForAffiliateLinks(html) == IF html = <<>> THEN FALSE ELSE HasAffiliatePattern(html)

(***************************************************************************)
(* calculatePostPriority.                                                  *)
(***************************************************************************)
TitleFragments ==
    {"7", "Best", "best", "top ", "list", "review", "REVIEW", " vs ", "hands-on",
     "guide", "buying", "word"}

ClassifierHtmlFragments == {"amazon.com/", "AMZN.TO/", "tag=", "c", "filler"}

ReviewWords == {"review", " vs ", "hands-on", "guide", "buying"}
ListicleWords == {"best", "top ", "list"}
Digits == {"7"}

IsReview(title) == \E w \in ReviewWords : Includes(ToLowerCase(title), w)

\* /^\d/.test(title) || lowerTitle.includes('best') || ...
IsListicle(title) ==
    \/ (title # <<>> /\ Head(title) \in Digits)
    \/ \E w \in ListicleWords : Includes(ToLowerCase(title), w)

\* mutant: the listicle test is made before the review test
PostTypeOf_ListicleFirst(title) ==
    IF IsListicle(title) THEN "listicle"
    ELSE IF IsReview(title) THEN "review"
    ELSE "info"

PostTypeOf(title) ==
    IF IsReview(title) THEN "review"
    ELSE IF IsListicle(title) THEN "listicle"
    ELSE "info"

\* mutant: the length test is html.length >= 1500
calculatePostPriority_GE(title, html) ==
    LET isReview == IsReview(title)
        isListicle == IsListicle(title)
        type == PostTypeOf(title)
        hasLinks == HasAffiliatePattern(html)
    IN  IF html = <<>>
        THEN IF isReview \/ isListicle
             THEN [priority |-> "high", type |-> type, status |-> "opportunity"]
             ELSE [priority |-> "low", type |-> type, status |-> "opportunity"]
        ELSE [priority |->
                 IF (isReview \/ isListicle) /\ ~hasLinks THEN "critical"
                 ELSE IF (isReview \/ isListicle) /\ hasLinks THEN "medium"
                 ELSE IF ~hasLinks /\ StrLen(html) >= MinContentLength THEN "high"
                 ELSE "low",
              type |-> type,
              status |-> IF hasLinks THEN "monetized" ELSE "opportunity"]

calculatePostPriority(title, html) ==
    LET isReview == IsReview(title)
        isListicle == IsListicle(title)
        type == PostTypeOf(title)
        hasLinks == HasAffiliatePattern(html)
    IN  IF html = <<>>
        THEN IF isReview \/ isListicle
             THEN [priority |-> "high", type |-> type, status |-> "opportunity"]
             ELSE [priority |-> "low", type |-> type, status |-> "opportunity"]
        ELSE [priority |->
                 IF (isReview \/ isListicle) /\ ~hasLinks THEN "critical"
                 ELSE IF (isReview \/ isListicle) /\ hasLinks THEN "medium"
                 ELSE IF ~hasLinks /\ StrLen(html) > MinContentLength THEN "high"
                 ELSE "low",
              type |-> type,
              status |-> IF hasLinks THEN "monetized" ELSE "opportunity"]

NoClassification == [priority |-> "none", type |-> "none", status |-> "none"]

clIdle ==
    /\ clTitle = <<>>
    /\ clHtml = <<>>
    /\ clPc = "off"
    /\ clResult = NoClassification

clInit ==
    /\ clTitle \in SeqsUpTo(TitleFragments, MaxTitleLen)
    /\ clHtml \in SeqsUpTo(ClassifierHtmlFragments, MaxHtmlLen)
    /\ clPc = "call"
    /\ clResult = NoClassification

clCall ==
    /\ clPc = "call"
    /\ clPc' = "returned"
    /\ clResult' = calculatePostPriority(clTitle, clHtml)
    /\ UNCHANGED <<clTitle, clHtml>>

clNext == clCall /\ UNCHANGED clOthers

(***************************************************************************)
(* CacheService.  A key is a sequence of fragments whose first one is its  *)
(* prefix; times are in milliseconds.                                      *)
(***************************************************************************)
CACHE_TTL_CONTENT == 1000 * 60 * 30
CACHE_TTL_AI == 1000 * 60 * 60 * 24 * 7
CACHE_TTL_SITEMAP == 1000 * 60 * 60

CacheKeys == { <<"ai_", "k">>, <<"wp_", "full_1">>, <<"scrape_", "h">> }
Payloads == {"v1", "v2"}
NoItem == [timestamp |-> -1, data |-> "absent"]
Null == "null"

StartsWith(key, prefix) == key # <<>> /\ Head(key) = prefix

\* mutant: the prefixes are tested in the other order of durations
TtlOfKey_Swapped(key) ==
    IF StartsWith(key, "ai_") THEN CACHE_TTL_CONTENT
    ELSE IF StartsWith(key, "wp_") THEN CACHE_TTL_AI
    ELSE CACHE_TTL_SITEMAP

\* key.startsWith('ai_') ? AI : (key.startsWith('wp_') ? CONTENT : SITEMAP)
TtlOfKey(key) ==
    IF StartsWith(key, "ai_") THEN CACHE_TTL_AI
    ELSE IF StartsWith(key, "wp_") THEN CACHE_TTL_CONTENT
    ELSE CACHE_TTL_SITEMAP

\* mutant: an entry expires as soon as its age reaches the TTL
CacheExpired_AtTtl(item, key, now) == now - item.timestamp >= TtlOfKey(key)

\* Date.now() - parsed.timestamp > ttl
CacheExpired(item, key, now) == now - item.timestamp > TtlOfKey(key)

\* CacheService.get: the returned value
CacheGetValue(store, key, now) ==
    IF store[key] = NoItem THEN Null
    ELSE IF CacheExpired(store[key], key, now) THEN Null
    ELSE store[key].data

\* CacheService.get: localStorage after the call (removeItem on expiry)
CacheGetStore(store, key, now) ==
    IF store[key] # NoItem /\ CacheExpired(store[key], key, now)
    THEN [store EXCEPT ![key] = NoItem]
    ELSE store

\* mutant: a write over an existing entry keeps the old timestamp
CacheSetStore_KeepAge(store, key, data, now, quota) ==
    LET item == [timestamp |-> IF store[key] = NoItem THEN now ELSE store[key].timestamp,
                 data |-> data]
        cleared == [k \in DOMAIN store |-> NoItem]
    IN  CASE quota = "ok" -> [store EXCEPT ![key] = item]
          [] quota = "full_once" -> [cleared EXCEPT ![key] = [timestamp |-> now, data |-> data]]
          [] OTHER -> cleared

\* localStorage.setItem(key, JSON.stringify(item)): the entry is written, or
\* the call throws (QuotaExceededError) and the store is as it was
StorageSetItem(store, key, item, fits) ==
    IF fits THEN [threw |-> FALSE, store |-> [store EXCEPT ![key] = item]]
    ELSE [threw |-> TRUE, store |-> store]

\* mutant: what the second setItem throws is not caught
CacheSetRun_NoOuterCatch(store, key, data, now, quota) ==
    LET item == [timestamp |-> now, data |-> data]
        first == StorageSetItem(store, key, item, quota = "ok")
        cleared == [k \in DOMAIN store |-> NoItem]
        second == StorageSetItem(cleared, key, item, quota = "full_once")
    IN  IF ~first.threw
        THEN [store |-> first.store, calls |-> <<"setItem">>, raised |-> FALSE]
        ELSE [store |-> second.store,
              calls |-> <<"setItem", "warn", "clear", "setItem">>,
              raised |-> second.threw]

\* CacheService.set (lines 47-57): the calls it makes, localStorage after it
\* and whether anything is thrown to the caller.  quota says how setItem
\* fares: "ok", "full_once" (QuotaExceededError, then clear() and a second
\* setItem that succeeds) or "full_twice" (the second setItem throws too and
\* the outer catch swallows it).
CacheSetRun(store, key, data, now, quota) ==
    LET item == [timestamp |-> now, data |-> data]
        first == StorageSetItem(store, key, item, quota = "ok")
        cleared == [k \in DOMAIN store |-> NoItem]
        second == StorageSetItem(cleared, key, item, quota = "full_once")
    IN  IF ~first.threw
        THEN [store |-> first.store, calls |-> <<"setItem">>, raised |-> FALSE]
        ELSE [store |-> second.store,
              calls |-> <<"setItem", "warn", "clear", "setItem">>
                        \o (IF second.threw THEN <<"warn">> ELSE <<>>),
              raised |-> FALSE]

\* CacheService.set: localStorage after the call
CacheSetStore(store, key, data, now, quota) == CacheSetRun(store, key, data, now, quota).store

NoCall == [op |-> "none", key |-> <<>>, data |-> Null, quota |-> "ok",
           before |-> NoItem, ret |-> Null]

caIdle ==
    /\ lsStore = <<>>
    /\ caNow = 0
    /\ caSteps = 0
    /\ caLast = NoCall

caInit ==
    /\ lsStore = [k \in CacheKeys |-> NoItem]
    /\ caNow = 0
    /\ caSteps = 0
    /\ caLast = NoCall

caGet(key) ==
    /\ caSteps < MaxCacheSteps
    /\ caSteps' = caSteps + 1
    /\ lsStore' = CacheGetStore(lsStore, key, caNow)
    /\ caLast' = [op |-> "get", key |-> key, data |-> Null, quota |-> "ok",
                  before |-> lsStore[key], ret |-> CacheGetValue(lsStore, key, caNow)]
    /\ UNCHANGED caNow

caSet(key, data, quota) ==
    /\ caSteps < MaxCacheSteps
    /\ caSteps' = caSteps + 1
    /\ lsStore' = CacheSetStore(lsStore, key, data, caNow, quota)
    /\ caLast' = [op |-> "set", key |-> key, data |-> data, quota |-> quota,
                  before |-> lsStore[key], ret |-> Null,
                  calls |-> CacheSetRun(lsStore, key, data, caNow, quota).calls,
                  raised |-> CacheSetRun(lsStore, key, data, caNow, quota).raised]
    /\ UNCHANGED caNow

\* time passes between two calls
ClockSteps == {1, CACHE_TTL_CONTENT, CACHE_TTL_SITEMAP, CACHE_TTL_AI}

\* the clock of the model stops here
ClockLimit == 2 * CACHE_TTL_AI

caTick(d) ==
    /\ caSteps < MaxCacheSteps
    /\ caNow <= ClockLimit
    /\ caSteps' = caSteps + 1
    /\ caNow' = caNow + d
    /\ caLast' = NoCall
    /\ UNCHANGED lsStore

caNext ==
    \/ \E key \in CacheKeys : caGet(key) /\ UNCHANGED caOthers
    \/ \E key \in CacheKeys, data \in Payloads, quota \in {"ok", "full_once", "full_twice"} :
          caSet(key, data, quota) /\ UNCHANGED caOthers
    \/ \E d \in ClockSteps : caTick(d) /\ UNCHANGED caOthers

(***************************************************************************)
(* fetchPageContent over the cache (src/utils.ts 251-278).  A URL is the   *)
(* sequence of its characters; the cache key is 'scrape_' followed by the  *)
(* decimal text of the 32-bit hash of the URL.  The call is one step from  *)
(* the lookup to the value it resolves with; it runs over localStorage,    *)
(* the clock and the record of the last call of the cache.                 *)
(***************************************************************************)
\* str.charCodeAt(i) of the characters the URLs are made of
CharCodeAt ==
    [c \in {"h", "t", "p", ":", "/", "a", "b", "A", "B"} |->
        CASE c = "h" -> 104 [] c = "t" -> 116 [] c = "p" -> 112 [] c = ":" -> 58
          [] c = "/" -> 47 [] c = "a" -> 97 [] c = "b" -> 98 [] c = "A" -> 65
          [] OTHER -> 66]

\* hash = ((hash << 5) - hash) + char; hash |= 0: 31 * hash + char on 32 bits,
\* two's complement, computed on the 16-bit halves of hash
HashStep(hash, char) ==
    LET hi == (hash \div 65536) % 65536
        lo == (hash % 65536) * 31 + char
        hi2 == (hi * 31 + (lo \div 65536)) % 65536
    IN  (IF hi2 >= 32768 THEN hi2 - 65536 ELSE hi2) * 65536 + (lo % 65536)

RECURSIVE HashFrom(_, _, _)
HashFrom(str, i, hash) ==
    IF i > Len(str) THEN hash ELSE HashFrom(str, i + 1, HashStep(hash, CharCodeAt[str[i]]))

RECURSIVE DecimalOf(_)
DecimalOf(n) ==
    LET d == <<"0", "1", "2", "3", "4", "5", "6", "7", "8", "9">>
    IN  IF n < 10 THEN <<d[n + 1]>> ELSE DecimalOf(n \div 10) \o <<d[(n % 10) + 1]>>

\* hash.toString(): the decimal text of the number
NumberToString(n) == IF n < 0 THEN <<"-">> \o DecimalOf(0 - n) ELSE DecimalOf(n)

\* CacheService.generateHash (lines 58-67)
generateHash(str) == NumberToString(HashFrom(str, 1, 0))

\* the pages of the site: http://a/Aa, http://a/BB, http://a/Ab
UrlOf(path) == <<"h", "t", "t", "p", ":", "/", "/", "a", "/">> \o path
PageUrls == { UrlOf(<<"A", "a">>), UrlOf(<<"B", "B">>), UrlOf(<<"A", "b">>) }

\* `scrape_${CacheService.generateHash(url)}` (line 252)
PageKey(url) == <<"scrape_">> \o generateHash(url)
PageKeys == { PageKey(url) : url \in PageUrls }

\* the {id, title, content} fetched from url, named by the page it is the
\* content of, and the lengths content may have
PageAt(url) ==
    CASE url = UrlOf(<<"A", "a">>) -> "page of http://a/Aa"
      [] url = UrlOf(<<"B", "B">>) -> "page of http://a/BB"
      [] OTHER -> "page of http://a/Ab"
PageLengths == {500, 501}

NoFetch == [op |-> "none", url |-> <<>>, before |-> NoItem, network |-> FALSE,
            ret |-> Null]

fpInit ==
    /\ lsStore = [k \in PageKeys |-> NoItem]
    /\ caNow = 0
    /\ caSteps = 0
    /\ caLast = NoFetch

\* fetchPageContent(url).  fetched = FALSE: fetchWithProxy rejects or its
\* response is not ok; length is that of the content of the page fetched;
\* quota is how setItem fares if the page is cached
fetchPageContent(url, fetched, length, quota) ==
    LET cacheKey == PageKey(url)
        cached == CacheGetValue(lsStore, cacheKey, caNow)
        looked == CacheGetStore(lsStore, cacheKey, caNow)
        result == PageAt(url)
    IN  /\ caSteps < MaxCacheSteps
        /\ caSteps' = caSteps + 1
        /\ IF cached # Null
           THEN /\ lsStore' = looked
                /\ caLast' = [op |-> "fetchPageContent", url |-> url,
                              before |-> lsStore[cacheKey], network |-> FALSE,
                              ret |-> cached]
           ELSE IF ~fetched
           THEN /\ lsStore' = looked
                /\ caLast' = [op |-> "fetchPageContent", url |-> url,
                              before |-> lsStore[cacheKey], network |-> TRUE,
                              ret |-> "throws"]
           ELSE /\ lsStore' = IF length > 500
                              THEN CacheSetStore(looked, cacheKey, result, caNow, quota)
                              ELSE looked
                /\ caLast' = [op |-> "fetchPageContent", url |-> url,
                              before |-> lsStore[cacheKey], network |-> TRUE,
                              ret |-> result]
        /\ UNCHANGED caNow

\* time passes between two calls
fpTick(d) ==
    /\ caSteps < MaxCacheSteps
    /\ caNow <= ClockLimit
    /\ caSteps' = caSteps + 1
    /\ caNow' = caNow + d
    /\ caLast' = NoFetch
    /\ UNCHANGED lsStore

fpNext ==
    \/ \E url \in PageUrls, fetched \in BOOLEAN, length \in PageLengths,
          quota \in {"ok", "full_once", "full_twice"} :
          fetchPageContent(url, fetched, length, quota) /\ UNCHANGED caOthers
    \/ \E d \in ClockSteps : fpTick(d) /\ UNCHANGED caOthers

(***************************************************************************)
(* HTML.  Content is a sequence of fragments: a fragment is a piece of     *)
(* markup that the patterns of insertIntoContent match as a whole or not   *)
(* at all.  T(n) is a piece of text or inline markup (<a>, <span>, <img>), *)
(* n telling the pieces apart; BoxOpen(uid) is the opening tag of a        *)
(* product box with that uniqueId; Ws is a run of whitespace.              *)
(***************************************************************************)
F(tag) == tag
T(n) == "text" \o ToString(n)
UniqueIds == {1, 2}
StaleUniqueId == 9
\* <div id="amz-<uid>" class="amz-sota-box amz-glass-amz-<uid>" style="...">
BoxOpen(uid) == "<div id=amz-" \o ToString(uid) \o " class=amz-sota-box>"
BoxOpenTags == { BoxOpen(uid) : uid \in UniqueIds \cup {StaleUniqueId} }
IsBoxOpen(f) == f \in BoxOpenTags
Ws == F("ws")

RECURSIVE Flatten(_)
Flatten(ss) == IF ss = <<>> THEN <<>> ELSE Head(ss) \o Flatten(Tail(ss))

\* the least member of a set of positions (0 if there is none)
FirstIn(S) == IF S = {} THEN 0 ELSE CHOOSE k \in S : \A j \in S : k <= j

\* the members of a set of positions, in order
InOrder(S) == [n \in 1..Cardinality(S) |-> CHOOSE k \in S : Cardinality({j \in S : j <= k}) = n]

\* the positions of h, in order, whose fragment is in tags
Positions(h, tags) == InOrder({k \in 1..Len(h) : h[k] \in tags})

\* the first position >= i of h that is not whitespace (Len(h) + 1 if none)
SkipWs(h, i) ==
    LET S == {k \in i..Len(h) : h[k] # "ws"}
    IN  IF S = {} THEN Len(h) + 1 ELSE FirstIn(S)

\* the first position >= i of h whose fragment is in tags (0 if none)
FirstFrom(h, i, tags) == FirstIn({k \in i..Len(h) : h[k] \in tags})

(***************************************************************************)
(* generateProductBoxHtml (lines 635-698), with the uniqueId that           *)
(* Math.random() gave it.                                                  *)
(***************************************************************************)
generateProductBoxHtml(product, affiliateTag, enableStickyBar, uniqueId) ==
    LET cleanAsin == product.asin
        schemaHtml == IF product.schema
                      THEN <<F("<script>"), T(product.title), F("</script>")>> ELSE <<>>
        styles == <<F("<style>"), F("</style>")>>
        header == <<F("<!-- comment -->"),
                    F("<div>"),
                      F("<div>"), T(0), F("</div>"),
                      F("<div>"), T(0), F("</div>"),
                    F("</div>")>>
        image == <<F("<!-- comment -->"), F("<div>"), T(0), F("</div>")>>
        specs == IF product.specs
                 THEN <<F("<div>"), F("<div>"), T(0), F("</div>"), F("</div>")>>
                 ELSE <<>>
        info == <<F("<!-- comment -->"),
                  F("<div>"),
                    F("<h3>"), T(product.title), F("</h3>"),
                    F("<div>"), F("<div>"), T(0), F("</div>"), T(0), F("</div>"),
                    F("<p>"), T(product.title), F("</p>"),
                    F("<!-- comment -->")>>
                \o specs \o
                <<  F("<div>"),
                      F("<div>"), T(0), F("</div>"),
                      T(0),
                    F("</div>"),
                  F("</div>")>>
        stickyHtml == IF enableStickyBar /\ cleanAsin # ""
                      THEN <<F("<div>"),
                               F("<div>"), T(0), F("</div>"),
                               T(0),
                             F("</div>"),
                             F("<script>"), T(0), F("</script>")>>
                      ELSE <<>>
    IN  <<Ws, F("<!-- wp:html -->"), Ws, BoxOpen(uniqueId)>>
        \o schemaHtml \o styles \o header
        \o <<F("<div>")>> \o image \o info \o <<F("</div>")>>
        \o stickyHtml
        \o <<F("</div>"), Ws, F("<!-- /wp:html -->"), Ws>>

(***************************************************************************)
(* insertIntoContent (lines 724-771).                                      *)
(***************************************************************************)
\* the first position q >= i of h that holds </div> followed by \s* and
\* <!-- /wp:html --> (0 if none)
FirstWrappedClose(h, i) ==
    FirstIn({k \in i..Len(h) : /\ h[k] = "</div>"
                               /\ SkipWs(h, k + 1) <= Len(h)
                               /\ h[SkipWs(h, k + 1)] = "<!-- /wp:html -->"})

\* a match of
\*   /<!-- wp:html -->\s*<div id="amz-.*?" class="amz-sota-box[\s\S]*?<\/div>\s*<!-- \/wp:html -->/
\* that starts at position i of h: its last position, 0 if there is none
MatchWrappedBox(h, i) ==
    IF i > Len(h) \/ h[i] # "<!-- wp:html -->" THEN 0
    ELSE LET j == SkipWs(h, i + 1)
         IN  IF j > Len(h) \/ ~IsBoxOpen(h[j]) THEN 0
             ELSE LET q == FirstWrappedClose(h, j + 1)
                  IN  IF q = 0 THEN 0 ELSE SkipWs(h, q + 1)

\* a match of /<div id="amz-.*?" class="amz-sota-box[\s\S]*?<\/div>/ that
\* starts at position i of h: its last position, 0 if there is none
MatchBareBox(h, i) ==
    IF i > Len(h) \/ ~IsBoxOpen(h[i]) THEN 0
    ELSE FirstFrom(h, i + 1, {"</div>"})

\* html.replace(/.../g, ''): every match, left to right, is cut out of what
\* h holds from position from on
RECURSIVE CutWrapped(_, _)
CutWrapped(h, from) ==
    LET i == FirstIn({k \in from..Len(h) : MatchWrappedBox(h, k) > 0})
    IN  IF i = 0 THEN SubSeq(h, from, Len(h))
        ELSE SubSeq(h, from, i - 1) \o CutWrapped(h, MatchWrappedBox(h, i) + 1)

RECURSIVE CutBare(_, _)
CutBare(h, from) ==
    LET i == FirstIn({k \in from..Len(h) : MatchBareBox(h, k) > 0})
    IN  IF i = 0 THEN SubSeq(h, from, Len(h))
        ELSE SubSeq(h, from, i - 1) \o CutBare(h, MatchBareBox(h, i) + 1)

\* mutant: the first pattern allows no whitespace after <!-- wp:html -->, so
\* it never matches a generated box and only the second pattern cuts
CleanHtml_NoSpace(html) ==
    LET cleaned == CutBare(html, 1)
    IN  IF cleaned = <<>> THEN html ELSE cleaned

\* STEP 1: CLEAN (lines 729-732)
CleanHtml(html) ==
    LET cleaned == CutBare(CutWrapped(html, 1), 1)
    IN  IF cleaned = <<>> THEN html ELSE cleaned

NoSnippet == ""

\* a text with punctuation in it, as "text1: more", and what
\* replace(/[^\w\s]/g, '') leaves of it, "text1 more"
Tp(n) == "text" \o ToString(n) \o ": more"
Ts(n) == "text" \o ToString(n) \o " more"
TextLabels == 1..9
\* contextSnippet.replace(/[^\w\s]/g, '').substring(0, 30), on the texts of
\* the model, none of which is longer than 30 characters
StripPunct(text) ==
    IF \E n \in TextLabels : text = Tp(n)
    THEN Ts(CHOOSE n \in TextLabels : text = Tp(n))
    ELSE text

\* cleanHtml.substring(0, idx) + `\n\n${box}\n\n` + cleanHtml.substring(idx),
\* idx being the end of the fragment at position pos (0: the very start)
InsertAfter(h, pos, box) ==
    SubSeq(h, 1, pos) \o <<Ws>> \o box \o <<Ws>> \o SubSeq(h, pos + 1, Len(h))

\* cleanHtml.includes('<!-- wp:')
WpOpenTags == {"<!-- wp:html -->", "<!-- wp:paragraph -->", "<!-- wp:heading -->"}
\* /<!-- \/wp:(paragraph|group|image|heading|list) -->/gi
WpBlockEndTags == {"<!-- /wp:paragraph -->", "<!-- /wp:heading -->"}

\* the match of new RegExp(`(<h[23][^>]*>.*?${cleanSnippet}.*?</h[23]>)`, 'i')
\* (lines 736-738): from the first opening heading tag that has, further on
\* in its line, a text holding cleanSnippet and then a closing heading tag,
\* up to the first such closing tag; "." matches no line break, which a run
\* of whitespace is taken to hold.  The position of that closing tag, 0 if
\* nothing matches.
ContextMatchEnd(h, snippet) ==
    LET cleanSnippet == StripPunct(snippet)
        EndFrom(k) ==
            LET j == FirstFrom(h, k + 1, {cleanSnippet})
                e == IF j = 0 THEN 0 ELSE FirstFrom(h, j + 1, {"</h2>", "</h3>"})
            IN  IF e > 0 /\ \A i \in k..e : h[i] # Ws THEN e ELSE 0
        S == {k \in 1..Len(h) : h[k] \in {"<h2>", "<h3>"} /\ EndFrom(k) > 0}
    IN  IF S = {} THEN 0 ELSE EndFrom(FirstIn(S))

\* mutant: the fragment is appended whatever the method
insertIntoContent_Append(html, box, method, contextSnippet) ==
    CleanHtml(html) \o <<Ws>> \o box

insertIntoContent(html, box, method, contextSnippet) ==
    LET cleanHtml == CleanHtml(html)
        m == IF method = "context_match" /\ contextSnippet # NoSnippet
             THEN ContextMatchEnd(cleanHtml, contextSnippet) ELSE 0
        blocks == Positions(cleanHtml, WpBlockEndTags)
        h2wp == Positions(cleanHtml, {"<!-- /wp:heading -->"})
        ps == Positions(cleanHtml, {"</p>"})
        h2 == Positions(cleanHtml, {"</h2>"})
    IN  IF m > 0 THEN InsertAfter(cleanHtml, m, box)
        ELSE IF FirstFrom(cleanHtml, 1, WpOpenTags) > 0
        THEN IF Len(blocks) = 0 THEN cleanHtml \o <<Ws>> \o box
             ELSE InsertAfter(cleanHtml,
                     CASE method = "top" -> blocks[1]
                       [] method = "smart_middle" -> blocks[(Len(blocks) \div 2) + 1]
                       [] method = "after_h2" ->
                             IF Len(h2wp) > 0 THEN h2wp[1] ELSE blocks[1]
                       [] OTHER -> Len(cleanHtml),
                     box)
        ELSE IF Len(ps) = 0 THEN cleanHtml \o <<Ws>> \o box
             ELSE InsertAfter(cleanHtml,
                     CASE method = "top" -> ps[1]
                       [] method = "smart_middle" -> ps[(Len(ps) \div 2) + 1]
                       [] method = "after_h2" -> IF Len(h2) > 0 THEN h2[1] ELSE ps[1]
                       [] OTHER -> Len(cleanHtml),
                     box)

InsertionMethods == {"top", "bottom", "smart_middle", "after_h2", "context_match"}

\* the products the boxes are generated from: title is the label of the text
\* it puts into the box
Products ==
    { [asin |-> "", title |-> 100, specs |-> FALSE, schema |-> FALSE],
      [asin |-> "B000000001", title |-> 101, specs |-> TRUE, schema |-> TRUE] }
\* the blocks a content is made of; i labels the text of the i-th block
Block(kind, i) ==
    CASE kind = "p" -> <<F("<p>"), T(i), F("</p>")>>
      [] kind = "h2" -> <<F("<h2>"), T(i), F("</h2>")>>
      [] kind = "h2:" -> <<F("<h2>"), Tp(i), F("</h2>")>>
      [] kind = "wp:paragraph" ->
            <<F("<!-- wp:paragraph -->"), F("<p>"), T(i), F("</p>"),
              F("<!-- /wp:paragraph -->"), Ws>>
      [] kind = "wp:heading" ->
            <<F("<!-- wp:heading -->"), F("<h2>"), T(i), F("</h2>"),
              F("<!-- /wp:heading -->"), Ws>>
      [] kind = "wp:html" ->
            <<F("<!-- wp:html -->"), Ws, F("<div>"), T(i), F("</div>"), Ws,
              F("<!-- /wp:html -->")>>
      [] OTHER -> \* "box": a fragment that an earlier insertion left
            <<Ws>> \o generateProductBoxHtml(
                          [asin |-> "B000000001", title |-> 90, specs |-> FALSE,
                           schema |-> FALSE], "tag-20", TRUE, StaleUniqueId) \o <<Ws>>

BlockKinds == {"p", "h2", "wp:paragraph", "wp:heading", "wp:html", "box"}

ContentOf(kinds) == Flatten([i \in 1..Len(kinds) |-> Block(kinds[i], i)])

\* the block delimiters of the editor, which the CMS leaves out of the
\* content it returns rendered (data.content.rendered, line 359)
WpDelimiters == WpOpenTags \cup WpBlockEndTags \cup {"<!-- /wp:html -->"}
Rendered(html) == SelectSeq(html, LAMBDA f : f \notin WpDelimiters)

\* the blocks of the contents a snippet is looked up in, and the snippets: the
\* text of a block, with or without punctuation, or a text of no block
ContextKinds == {"p", "h2", "h2:", "wp:heading"}
ContextSnippets ==
    {T(n) : n \in 1..MaxBlocks} \cup {Tp(n) : n \in 1..MaxBlocks} \cup {T(8)}

\* the blocks of a classic content that holds fragments of earlier insertions
RenderedKinds == {"p", "h2", "box"}

muIdle ==
    /\ muContent = <<>>
    /\ muMethod = "off"
    /\ muSnippet = NoSnippet
    /\ muBoxes = <<>>
    /\ muHtml = <<>>
    /\ muCalls = 0

muInit ==
    /\ \E kinds \in SeqsUpTo(BlockKinds, MaxBlocks) : muContent = ContentOf(kinds)
    /\ muMethod \in InsertionMethods
    /\ muSnippet = NoSnippet
    /\ muBoxes = <<>>
    /\ muHtml = muContent
    /\ muCalls = 0

\* generateProductBoxHtml(product, config.amazonTag, config.enableStickyBar);
\* the first box of a run is given the uniqueId 1
muGenerate(product, uniqueId) ==
    /\ muCalls <= 1
    /\ Len(muBoxes) = muCalls
    /\ muBoxes = <<>> => uniqueId = 1
    /\ muBoxes' = Append(muBoxes, generateProductBoxHtml(product, "tag-20", TRUE, uniqueId))
    /\ UNCHANGED <<muContent, muMethod, muSnippet, muHtml, muCalls>>

\* insertIntoContent(content, box, method) on the result of the previous call
muInsert ==
    /\ Len(muBoxes) = muCalls + 1
    /\ muHtml' = insertIntoContent(muHtml, muBoxes[Len(muBoxes)], muMethod, muSnippet)
    /\ muCalls' = muCalls + 1
    /\ UNCHANGED <<muContent, muMethod, muSnippet, muBoxes>>

muNext ==
    \/ \E product \in Products, uniqueId \in UniqueIds :
          muGenerate(product, uniqueId) /\ UNCHANGED muOthers
    \/ muInsert /\ UNCHANGED muOthers

(***************************************************************************)
(* analyzeContentAndFindProduct (lines 414-551) over generateAIContent     *)
(* (lines 280-321) and withRetry (lines 72-82).  A string is a sequence of *)
(* fragments; Undefined stands for undefined and null.                     *)
(***************************************************************************)
Undefined == <<"undefined">>
\* a value in a condition: undefined, null and '' are falsy
Truthy(s) == s # Undefined /\ s # <<>>

RECURSIVE TrimStart(_)
TrimStart(s) == IF s # <<>> /\ Head(s) = " " THEN TrimStart(Tail(s)) ELSE s
RECURSIVE TrimEnd(_)
TrimEnd(s) == IF s # <<>> /\ s[Len(s)] = " " THEN TrimEnd(SubSeq(s, 1, Len(s) - 1)) ELSE s
\* String.trim
Trim(s) == TrimEnd(TrimStart(s))
\* options?.manualAsin?.trim()
OptTrim(s) == IF s = Undefined THEN Undefined ELSE Trim(s)

\* /\/(?:dp|gp\/product|ASIN)\/([A-Z0-9]{10})/i: the product links of the
\* modelled pages and the identifier each carries
AsinLinks == {"/dp/B0HTML0001"}
AsinOfLink(f) == <<"B0HTML0001">>
extractAsinFromHtml(html) ==
    LET S == {k \in 1..Len(html) : html[k] \in AsinLinks}
    IN  IF S = {} THEN Undefined ELSE AsinOfLink(html[FirstIn(S)])

constructAmazonImageUrl(asin) ==
    IF ~Truthy(asin) \/ StrLen(asin) < 10 THEN <<>>
    ELSE <<"https://", "images-na.ssl-images-amazon.com/images/P/">> \o Trim(asin)
         \o <<".01._SS500_.jpg">>

\* s.startsWith('http')
StartsWithHttp(s) == s # <<>> /\ s[1] \in {"https://", "http://"}

Placeholder == <<"https://", "placehold.co/500?text=Product">>

\* {} as ProductDetails
EmptyProduct ==
    [asin |-> Undefined, title |-> Undefined, price |-> Undefined,
     imageUrl |-> Undefined, schema |-> FALSE]

\* createFallbackProduct (lines 429-449)
createFallbackProduct(manualAsin, manualImage, fallbackImage) ==
    [asin |-> IF Truthy(manualAsin) THEN manualAsin ELSE <<>>,
     title |-> IF Truthy(manualAsin) THEN <<"Amazon Product (Check Details)">>
               ELSE <<"Detected Product">>,
     price |-> <<"Check Price">>,
     imageUrl |-> IF Truthy(manualImage) THEN manualImage
                  ELSE IF Truthy(manualAsin) THEN constructAmazonImageUrl(manualAsin)
                  ELSE IF Truthy(fallbackImage) THEN fallbackImage
                  ELSE Placeholder,
     schema |-> FALSE]

(* The text of the provider is a sequence of pieces: a code fence, prose   *)
(* without brackets, a complete JSON value, or a JSON value cut short      *)
(* after its opening bracket.  A JSON value is an object or an array of    *)
(* objects; an object has the fields the code reads (a confidence of -1:   *)
(* no confidence field).                                                   *)
NoJson == [isArray |-> FALSE, items |-> <<>>]
Fence == [kind |-> "fence", value |-> NoJson]
Prose == [kind |-> "prose", value |-> NoJson]
Broken == [kind |-> "broken", value |-> NoJson]
JsonObject(o) == [kind |-> "json", value |-> [isArray |-> FALSE, items |-> <<o>>]]
JsonArray(os) == [kind |-> "json", value |-> [isArray |-> TRUE, items |-> os]]

NoConfidence == -1
JsonNumber(text) == <<"number", text>>
IsJsonNumber(v) == Len(v) = 2 /\ v[1] = "number"

ObjEmpty ==
    [confidence |-> NoConfidence, asin |-> Undefined, productName |-> Undefined,
     price |-> Undefined, imageUrl |-> Undefined]
ObjGood ==
    [confidence |-> 95, asin |-> <<"B0AI000001">>, productName |-> <<"Widget">>,
     price |-> <<"$10">>, imageUrl |-> <<"https://", "ai.jpg">>]
ObjNoAsin ==
    [confidence |-> 0, asin |-> Undefined, productName |-> <<"Gadget">>,
     price |-> Undefined, imageUrl |-> <<"https://", "ai.jpg">>]
ObjNumPrice ==
    [confidence |-> 70, asin |-> <<"B0AI000001">>, productName |-> <<"Widget">>,
     price |-> JsonNumber("29.99"), imageUrl |-> Undefined]

\* response.text || "{}", data.content?.[0]?.text || "{}", ...content || "{}"
EmptyObjectText == <<JsonObject(ObjEmpty)>>
OrEmptyObject(text) == IF text = <<>> THEN EmptyObjectText ELSE text

ResponseTexts ==
    { <<>>,
      <<JsonObject(ObjGood)>>,
      <<Fence, JsonObject(ObjGood), Fence>>,
      <<Prose, JsonObject(ObjNoAsin), Prose>>,
      <<JsonObject(ObjGood), Prose, JsonObject(ObjNoAsin)>>,
      <<JsonObject(ObjNumPrice)>>,
      <<JsonArray(<<ObjGood, ObjNoAsin>>)>>,
      <<Prose>>,
      <<Broken, Prose>> }

\* jsonString.replace(/```json|```/g, '')
RECURSIVE StripFences(_)
StripFences(text) ==
    IF text = <<>> THEN <<>>
    ELSE (IF Head(text).kind = "fence" THEN <<>> ELSE <<Head(text)>>) \o StripFences(Tail(text))

\* cleanJson.match(/(\{|\[)[\s\S]*(\}|\])/): from the first opening bracket to
\* the last closing bracket after it; the text itself where there is no match
JsonMatch(text) ==
    LET opens == {k \in 1..Len(text) : text[k].kind \in {"json", "broken"}}
        i == FirstIn(opens)
        closes == {k \in 1..Len(text) : text[k].kind = "json" /\ k >= i}
    IN  IF opens = {} \/ closes = {} THEN text
        ELSE SubSeq(text, i, CHOOSE k \in closes : \A j \in closes : j <= k)

\* JSON.parse(cleanJson): [ok, data]
JsonParse(text) ==
    IF Len(text) = 1 /\ text[1].kind = "json" THEN [ok |-> TRUE, data |-> text[1].value]
    ELSE [ok |-> FALSE, data |-> NoJson]

\* d.field of parsed data: the fields of an array are undefined
AsObject(data) == IF data.isArray THEN ObjEmpty ELSE data.items[1]

\* mapToProduct (lines 494-531): [threw, product]; generateJsonLd calls
\* product.price.replace, a TypeError when the price is a number
mapToProduct(d, manualAsin, manualImage, fallbackImage) ==
    LET finalImage ==
            IF Truthy(manualImage) /\ StartsWithHttp(manualImage) THEN manualImage
            ELSE IF Truthy(d.asin) \/ Truthy(manualAsin)
                 THEN constructAmazonImageUrl(IF Truthy(d.asin) THEN d.asin ELSE manualAsin)
            ELSE IF Truthy(d.imageUrl) /\ StartsWithHttp(d.imageUrl) THEN d.imageUrl
            ELSE IF Truthy(fallbackImage) THEN fallbackImage
            ELSE Placeholder
        price == IF Truthy(d.price) THEN d.price ELSE <<"Check Price">>
        prod == [asin |-> IF Truthy(manualAsin) THEN manualAsin
                          ELSE IF Truthy(d.asin) THEN d.asin ELSE <<>>,
                 title |-> IF Truthy(d.productName) THEN d.productName
                           ELSE <<"Unknown Product">>,
                 price |-> price,
                 imageUrl |-> finalImage,
                 schema |-> TRUE]
    IN  [threw |-> IsJsonNumber(price), product |-> prod]

\* the confidence answered for parsed data: data.confidence || 85
ConfidenceOf(d) == IF d.confidence = NoConfidence \/ d.confidence = 0 THEN 85 ELSE d.confidence

NoAnalysis == [product |-> EmptyProduct, detectedProducts |-> <<>>, confidence |-> -1]

\* the try block from the answer of generateAIContent on (lines 480-541):
\* [threw, value]
AnalyzeTry(jsonString, mode, manualAsin, manualImage, fallbackImage) ==
    LET parsed == JsonParse(JsonMatch(StripFences(jsonString)))
        data == parsed.data
        mapped == [k \in 1..Len(data.items) |->
                      mapToProduct(data.items[k], manualAsin, manualImage, fallbackImage)]
        products == [k \in 1..Len(mapped) |-> mapped[k].product]
        single == mapToProduct(AsObject(data), manualAsin, manualImage, fallbackImage)
    IN  IF ~parsed.ok THEN [threw |-> TRUE, value |-> NoAnalysis]
        ELSE IF mode = "multi" /\ data.isArray
        THEN [threw |-> \E k \in 1..Len(mapped) : mapped[k].threw,
              value |-> [product |-> products[1], detectedProducts |-> products,
                         confidence |-> 90]]
        ELSE [threw |-> single.threw,
              value |-> [product |-> single.product,
                         detectedProducts |-> <<single.product>>,
                         confidence |-> ConfidenceOf(AsObject(data))]]

\* mutant: the catch block answers the empty candidate whatever the caller gave
AnalyzeCatch_Empty(manualAsin, manualImage, fallbackImage) ==
    [product |-> EmptyProduct, detectedProducts |-> <<>>, confidence |-> 0]

\* the catch block (lines 542-550)
AnalyzeCatch(manualAsin, manualImage, fallbackImage) ==
    IF Truthy(manualAsin) \/ Truthy(manualImage)
    THEN LET fallback == createFallbackProduct(manualAsin, manualImage, fallbackImage)
         IN  [product |-> fallback, detectedProducts |-> <<fallback>>, confidence |-> 100]
    ELSE [product |-> EmptyProduct, detectedProducts |-> <<>>, confidence |-> 0]

\* the inputs of the call
AnalyzeOptions ==
    [manualAsin : {Undefined, <<" ">>, <<" ", "B0MANUAL01", " ">>},
     manualImage : {Undefined, <<"https://", "manual.jpg">>},
     mode : {"undefined", "single", "multi"},
     fallbackImage : {Undefined, <<"https://", "featured.jpg">>}]
AnalyzeHtmls == {<<>>, <<"c">>, <<"filler">>, <<"filler", "/dp/B0HTML0001">>}
\* config.aiProvider, config.aiApiKey and process.env.API_KEY
AnalyzeConfigs ==
    { [aiProvider |-> "gemini", aiApiKey |-> <<"key">>, envKey |-> <<>>],
      [aiProvider |-> "gemini", aiApiKey |-> <<>>, envKey |-> <<"envkey">>],
      [aiProvider |-> "gemini", aiApiKey |-> <<>>, envKey |-> <<>>],
      [aiProvider |-> "openai", aiApiKey |-> <<"key">>, envKey |-> <<>>],
      [aiProvider |-> "openai", aiApiKey |-> <<>>, envKey |-> <<>>],
      [aiProvider |-> "anthropic", aiApiKey |-> <<"key">>, envKey |-> <<>>] }

\* withRetry(fn, 2, 2000) (line 320)
AiRetries == 2
AiDelay == 2000

\* what one run of the function given to withRetry can end in (lines 282-319):
\*   rate_limit  it throws an error whose message holds 429, Quota or Throttl
\*   error       it throws another error (no key, network, unreadable body)
\*   http_error  the provider answers an error status with a JSON error body,
\*               which the fetch-based providers read as no text at all
\*   text        the provider answers a text
AttemptOutcomes(config) ==
    LET texts == { [kind |-> "text", text |-> t] : t \in ResponseTexts }
        thrown(k) == [kind |-> k, text |-> <<>>]
    IN  IF config.aiProvider = "gemini"
        THEN IF ~Truthy(config.aiApiKey) /\ ~Truthy(config.envKey) THEN {thrown("error")}
             ELSE {thrown("rate_limit"), thrown("error")} \cup texts
        ELSE IF ~Truthy(config.aiApiKey) THEN {thrown("error")}
             ELSE {thrown("error"), thrown("http_error")} \cup texts

anMode == IF anOptions.mode = "undefined" THEN "single" ELSE anOptions.mode
anManualAsin == OptTrim(anOptions.manualAsin)
anManualImage == OptTrim(anOptions.manualImage)

anIdle ==
    /\ anOptions = [manualAsin |-> Undefined, manualImage |-> Undefined,
                    mode |-> "undefined", fallbackImage |-> Undefined]
    /\ anHtml = <<>>
    /\ anConfig = [aiProvider |-> "gemini", aiApiKey |-> <<>>, envKey |-> <<>>]
    /\ anPc = "off"
    /\ anRetries = AiRetries
    /\ anDelay = AiDelay
    /\ anLog = <<>>
    /\ anCaught = FALSE
    /\ anRequest = [useGrounding |-> FALSE, instruction |-> "none"]
    /\ anResult = NoAnalysis

anInit ==
    /\ anOptions \in AnalyzeOptions
    /\ anHtml \in AnalyzeHtmls
    /\ anConfig \in AnalyzeConfigs
    /\ anPc = "start"
    /\ anRetries = AiRetries
    /\ anDelay = AiDelay
    /\ anLog = <<>>
    /\ anCaught = FALSE
    /\ anRequest = [useGrounding |-> FALSE, instruction |-> "none"]
    /\ anResult = NoAnalysis

\* lines 422-478: the early return for a page without text, else the prompt
\* and the first run of the provider call
anStart ==
    /\ anPc = "start"
    /\ LET existingAsin == IF Truthy(anManualAsin) THEN anManualAsin
                           ELSE extractAsinFromHtml(anHtml)
       IN  IF StrLen(anHtml) < 50
           THEN /\ anPc' = "done"
                /\ anResult' = [product |-> createFallbackProduct(anManualAsin, anManualImage,
                                                                  anOptions.fallbackImage),
                                detectedProducts |-> <<>>, confidence |-> 0]
                /\ UNCHANGED anRequest
           ELSE /\ anPc' = "attempt"
                /\ anRequest' =
                     [useGrounding |-> Truthy(anManualAsin) \/ ~Truthy(existingAsin)
                                       \/ anMode = "multi",
                      instruction |-> IF Truthy(anManualAsin) THEN "manual"
                                      ELSE IF anMode = "multi" THEN "multi"
                                      ELSE IF Truthy(existingAsin) THEN "verify"
                                      ELSE "search"]
                /\ UNCHANGED anResult
    /\ UNCHANGED <<anOptions, anHtml, anConfig, anRetries, anDelay, anLog, anCaught>>

\* one run of the provider call and what follows it without waiting: the
\* retry decision of withRetry (lines 75-79) when it throws, the rest of the
\* try block and the catch block of analyzeContentAndFindProduct otherwise
anAttempt(outcome) ==
    /\ anPc = "attempt"
    /\ outcome \in AttemptOutcomes(anConfig)
    /\ anLog' = Append(anLog, outcome.kind)
    /\ LET caught == AnalyzeCatch(anManualAsin, anManualImage, anOptions.fallbackImage)
           jsonString == IF outcome.kind = "http_error" THEN EmptyObjectText
                         ELSE OrEmptyObject(outcome.text)
           tried == AnalyzeTry(jsonString, anMode, anManualAsin, anManualImage,
                               anOptions.fallbackImage)
       IN  IF outcome.kind \in {"rate_limit", "error"}
           THEN IF anRetries = 0
                THEN /\ anPc' = "done"
                     /\ anCaught' = TRUE
                     /\ anResult' = caught
                     /\ UNCHANGED anDelay
                ELSE /\ anPc' = "sleep"
                     /\ anDelay' = IF outcome.kind = "rate_limit" THEN anDelay * 2 ELSE anDelay
                     /\ UNCHANGED <<anCaught, anResult>>
           ELSE /\ anPc' = "done"
                /\ anCaught' = tried.threw
                /\ anResult' = IF tried.threw THEN caught ELSE tried.value
                /\ UNCHANGED anDelay
    /\ UNCHANGED <<anOptions, anHtml, anConfig, anRetries, anRequest>>

\* await sleep(nextDelay); return withRetry(fn, retries - 1, nextDelay)
anWake ==
    /\ anPc = "sleep"
    /\ anPc' = "attempt"
    /\ anRetries' = anRetries - 1
    /\ UNCHANGED <<anOptions, anHtml, anConfig, anDelay, anLog, anCaught, anRequest, anResult>>

anNext ==
    \/ anStart /\ UNCHANGED anOthers
    \/ \E outcome \in UNION { AttemptOutcomes(c) : c \in AnalyzeConfigs } :
          anAttempt(outcome) /\ UNCHANGED anOthers
    \/ anWake /\ UNCHANGED anOthers

(***************************************************************************)
(* The SitemapScanner component (src/components/SitemapScanner.tsx).  A    *)
(* page is named by its position in savedState.posts, which stands for its *)
(* url.  scPosts is savedState.posts as the parent holds it: the state     *)
(* sink that onStateChange writes.  scStatus and scStop are the React      *)
(* states status and stopSignal as the latest render holds them; a running *)
(* handler keeps the values of the render that created it.                 *)
(***************************************************************************)
NoProduct == [asin |-> "", title |-> 0, specs |-> FALSE, schema |-> FALSE]

\* a BlogPost of savedState.posts
Post(title, postType, content, monetizationStatus, autoPilotStatus, priority) ==
    [title |-> title, postType |-> postType, content |-> content,
     monetizationStatus |-> monetizationStatus, autoPilotStatus |-> autoPilotStatus,
     priority |-> priority, aiConfidence |-> NoConfidence, proposedProduct |-> NoProduct,
     id |-> 0]

\* a post as the triage and an earlier run leave it
SavedPost(monetizationStatus, autoPilotStatus, priority) ==
    Post(<<"word">>, "info", <<>>, monetizationStatus, autoPilotStatus, priority)

SavedPosts ==
    { SavedPost("opportunity", "idle", "low"),
      SavedPost("opportunity", "failed", "critical"),
      SavedPost("opportunity", "published", "high"),
      SavedPost("monetized", "idle", "medium") }

scIdle ==
    /\ scPosts = <<>>
    /\ scStatus = "idle"
    /\ scStop = FALSE

\* the STOP button (line 241): shown while status is processing
scPressStop ==
    /\ scStatus = "processing"
    /\ scStop' = TRUE
    /\ UNCHANGED <<scPosts, scStatus>>

\* handleReset (lines 102-108), the operator having confirmed: the pages are
\* wiped from the state; status and the handlers that run are left alone
scReset ==
    /\ scPosts' = <<>>
    /\ UNCHANGED <<scStatus, scStop>>

(***************************************************************************)
(* runAutonomousPipeline (src/components/SitemapScanner.tsx 110-178) over  *)
(* runConcurrent, with pushToWordPress (src/utils.ts 553-578).  Time is    *)
(* counted in steps of ClockStep milliseconds and only as far as the timer *)
(* of triggerUIUpdate needs it.                                            *)
(***************************************************************************)
\* const priorityScore = { critical: 3, high: 2, medium: 1, low: 0 }
priorityScore(priority) ==
    CASE priority = "critical" -> 3
      [] priority = "high" -> 2
      [] priority = "medium" -> 1
      [] OTHER -> 0

\* mutant: the targets are not sorted
TargetsOf_Unsorted(posts) ==
    LET S == {k \in 1..Len(posts) : /\ posts[k].monetizationStatus = "opportunity"
                                    /\ posts[k].autoPilotStatus # "published"}
    IN  [n \in 1..Cardinality(S) |->
            CHOOSE k \in S : Cardinality({j \in S : j < k}) = n - 1]

\* savedState.posts.filter(...).sort(...): the targets, best priority first,
\* posts of equal priority in their order in savedState.posts
TargetsOf(posts) ==
    LET S == {k \in 1..Len(posts) : /\ posts[k].monetizationStatus = "opportunity"
                                    /\ posts[k].autoPilotStatus # "published"}
        Before(j, k) ==
            \/ priorityScore(posts[j].priority) > priorityScore(posts[k].priority)
            \/ /\ priorityScore(posts[j].priority) = priorityScore(posts[k].priority)
               /\ j < k
    IN  [n \in 1..Cardinality(S) |->
            CHOOSE k \in S : Cardinality({j \in S : Before(j, k)}) = n - 1]

\* config.wpUrl as scheme and rest, and window.location.protocol
WpUrls == {<<"", "">>, <<"http://", "blog.example">>, <<"", "blog.example/">>}
LocationProtocol == "https:"
\* pushToWordPress lines 554-558: the url gets https:// unless it starts with
\* http; an https app may not post to an http site
SecurityBlock(wpUrl) ==
    LET scheme == IF wpUrl[1] \in {"http://", "https://"} THEN wpUrl[1] ELSE "https://"
    IN  LocationProtocol = "https:" /\ scheme = "http://"

AutoPublishThresholds == {0, 30, 90}
ConcurrencyLimits == {0, 1}
\* config.autoPublishThreshold || 85, config.concurrencyLimit || 3
OrDefault(n, default) == IF n = 0 THEN default ELSE n

\* what fetchPageContent resolves with: {id, title, content}
NoPage == [id |-> -1, content |-> <<>>]
FetchedPages ==
    { [id |-> 7, content |-> ContentOf(<<"p", "p">>)],
      [id |-> 7, content |-> ContentOf(<<"p">>) \o <<"<p>", "amazon.com/", "</p>">>] }

\* what analyzeContentAndFindProduct resolves with (it never rejects)
NotAnalyzed == [confidence |-> NoConfidence, product |-> NoProduct]
Analyses ==
    { [confidence |-> c, product |-> p] :
        c \in {50, 85, 90}, p \in {q \in Products : q.asin # ""} }
    \cup { [confidence |-> 90, product |-> p] : p \in {q \in Products : q.asin = ""} }

\* how the CMS answers the POST of pushToWordPress: 2xx, 401, another status
PublishResponses == {"ok", "401", "500"}

\* the uniqueId Math.random gives a fragment: one value here, the pipeline
\* never holds two fragments against each other
PipelineUniqueIds == {1}

\* setTimeout(..., 500) of triggerUIUpdate; updateTimer = null
TimerDelay == 500
ClockStep == TimerDelay \div 2
\* time that has passed, known up to TimerDelay
Later(elapsed) == IF elapsed + ClockStep >= TimerDelay THEN TimerDelay ELSE elapsed + ClockStep

\* mutant: a timer is set whether or not one is pending
triggerUIUpdate_Always(timers) == Append(timers, 0)

\* triggerUIUpdate (lines 126-132): the pending timers after the call, a
\* timer being the time that has passed since its setTimeout
triggerUIUpdate(timers) == IF timers # <<>> THEN timers ELSE <<0>>

\* onStateChange({...stateRef.current, posts: Array.from(postMap.values())}):
\* an entry of the record of emissions
Emission(kind, since, posts) == [kind |-> kind, since |-> since, posts |-> posts]

ppChunk == ChunkOf(ppI, OrDefault(ppConfig.concurrencyLimit, 3), Len(ppTargets))
\* the page that is the k-th item of the queue (k counts from 0)
ppItem(k) == ppTargets[k + 1]

ppIdle ==
    /\ ppConfig = [wpUrl |-> <<"", "">>, autoPublishThreshold |-> 0, concurrencyLimit |-> 0]
    /\ ppFullyAuto = FALSE
    /\ ppStopSignal = FALSE
    /\ ppSaved = <<>>
    /\ ppTargets = <<>>
    /\ ppPosts = <<>>
    /\ ppPhase = "off"
    /\ ppI = 0
    /\ ppAt = <<>>
    /\ ppPage = <<>>
    /\ ppAnalysis = <<>>
    /\ ppRequests = <<>>
    /\ ppResponse = <<>>
    /\ ppTimer = <<>>
    /\ ppSince = TimerDelay
    /\ ppSink = <<>>

\* the handler before RUN AUTO-PILOT is pressed
ppReady ==
    /\ ppStopSignal = FALSE
    /\ ppSaved = <<>>
    /\ ppTargets = <<>>
    /\ ppPosts = <<>>
    /\ ppPhase = "idle"
    /\ ppI = 0
    /\ ppAt = <<>>
    /\ ppPage = <<>>
    /\ ppAnalysis = <<>>
    /\ ppRequests = <<>>
    /\ ppResponse = <<>>
    /\ ppTimer = <<>>
    /\ ppSince = TimerDelay
    /\ ppSink = <<>>

\* the component before RUN AUTO-PILOT is pressed: any configuration, any
\* pages, the stop flag as an earlier run left it
ppInit ==
    /\ ppConfig \in [wpUrl : WpUrls, autoPublishThreshold : AutoPublishThresholds,
                     concurrencyLimit : ConcurrencyLimits]
    /\ ppFullyAuto \in BOOLEAN
    /\ ppReady
    /\ scPosts \in SeqsUpTo(SavedPosts, MaxPosts)
    /\ scStatus = "idle"
    /\ scStop \in BOOLEAN

ppFixed == <<ppConfig, ppFullyAuto, ppStopSignal, ppSaved>>
ppClock == <<ppTimer, ppSince, ppSink>>

\* mutant: the worker does not mark its page
Analyzing_Unmarked(post) == post

\* line 137: the record of a page whose worker starts
Analyzing(post) == [post EXCEPT !.autoPilotStatus = "analyzing"]

\* line 175: if(updateTimer) clearTimeout(updateTimer)
clearTimeout(timers) == <<>>

\* runConcurrent from the test of its loop at i up to the next await, and,
\* when the loop is over, lines 175-177.  A window starts: every worker of
\* it runs up to its first await (lines 135-141), or returns at once on the
\* stop flag, and then Promise.all resolves and sleep(50) is awaited; so it
\* is with a window that holds no item.
ppLoop(i, targets, stop, saved, posts, at, timers, since, sink) ==
    LET started == { targets[k + 1] :
                       k \in ChunkOf(i, OrDefault(ppConfig.concurrencyLimit, 3), Len(targets)) }
    IN  IF i < Len(targets)
        THEN [phase |-> IF stop \/ started = {} THEN "sleep" ELSE "await",
              posts |-> [p \in DOMAIN posts |->
                           IF p \in started /\ ~stop THEN Analyzing(saved[p]) ELSE posts[p]],
              at |-> [p \in DOMAIN at |->
                        IF p \in started THEN (IF stop THEN "settled" ELSE "fetch")
                        ELSE at[p]],
              timers |-> IF stop \/ started = {} THEN timers ELSE triggerUIUpdate(timers),
              sink |-> sink,
              flushed |-> FALSE]
        ELSE [phase |-> "done",
              posts |-> posts,
              at |-> at,
              timers |-> clearTimeout(timers),
              sink |-> Append(sink, Emission("flush", since, posts)),
              flushed |-> TRUE]

\* the phase of runConcurrent after a worker has settled: Promise.all
\* resolves when it was the last of its window
ppAwait(at) == IF \A k \in ppChunk : at[ppItem(k)] = "settled" THEN "sleep" ELSE "await"

\* RUN AUTO-PILOT is pressed, the button running the handler unless status is
\* processing (line 241): lines 110-134 and runConcurrent up to its first
\* await
ppStart ==
    /\ ppPhase = "idle"
    /\ scStatus # "processing"
    /\ IF ppConfig.wpUrl = <<"", "">>
       THEN /\ ppPhase' = "refused"
            /\ UNCHANGED <<ppStopSignal, ppSaved, ppTargets, ppPosts, ppAt, ppPage,
                           ppAnalysis, ppRequests, ppResponse, ppTimer, ppSink, scVars>>
       ELSE LET run == ppLoop(0, TargetsOf(scPosts), scStop, scPosts, scPosts,
                              [p \in 1..Len(scPosts) |-> "none"], <<>>, ppSince, <<>>)
            IN  /\ ppPhase' = run.phase
                /\ scStop' = FALSE
                /\ scStatus' = IF run.flushed THEN "idle" ELSE "processing"
                /\ scPosts' = IF run.flushed THEN run.posts ELSE scPosts
                /\ ppStopSignal' = scStop
                /\ ppSaved' = scPosts
                /\ ppTargets' = TargetsOf(scPosts)
                /\ ppPosts' = run.posts
                /\ ppAt' = run.at
                /\ ppTimer' = run.timers
                /\ ppSink' = run.sink
                /\ ppPage' = [p \in 1..Len(scPosts) |-> NoPage]
                /\ ppAnalysis' = [p \in 1..Len(scPosts) |-> NotAnalyzed]
                /\ ppRequests' = [p \in 1..Len(scPosts) |-> <<>>]
                /\ ppResponse' = [p \in 1..Len(scPosts) |-> "none"]
    /\ UNCHANGED <<ppConfig, ppFullyAuto, ppI, ppSince>>

\* fetchPageContent settles (lines 141-147, 168-172); fetched = FALSE: it
\* rejects
ppFetched(p, fetched, page) ==
    /\ ppPhase = "await"
    /\ p \in DOMAIN ppAt
    /\ ppAt[p] = "fetch"
    /\ IF ~fetched
       THEN /\ ppPosts' = [ppPosts EXCEPT ![p] = [ppSaved[p] EXCEPT !.autoPilotStatus = "failed"]]
            /\ ppAt' = [ppAt EXCEPT ![p] = "settled"]
            /\ ppTimer' = triggerUIUpdate(ppTimer)
            /\ UNCHANGED ppPage
       ELSE /\ ppPage' = [ppPage EXCEPT ![p] = page]
            /\ IF checkForAffiliateLinks(page.content)
               THEN /\ ppPosts' = [ppPosts EXCEPT ![p] =
                                     [ppSaved[p] EXCEPT !.monetizationStatus = "monetized",
                                                        !.autoPilotStatus = "idle",
                                                        !.priority = "medium"]]
                    /\ ppAt' = [ppAt EXCEPT ![p] = "settled"]
                    /\ ppTimer' = triggerUIUpdate(ppTimer)
               ELSE /\ ppAt' = [ppAt EXCEPT ![p] = "analyze"]
                    /\ UNCHANGED <<ppPosts, ppTimer>>
    /\ ppPhase' = ppAwait(ppAt')
    /\ UNCHANGED <<ppFixed, ppTargets, ppI, ppAnalysis, ppRequests, ppResponse,
                   ppSince, ppSink, scVars>>

\* mutant: the proposal is not tested for confidence > 50 and an identifier
Verdict_NoGate(analysis, fullyAuto, threshold) ==
    IF fullyAuto /\ analysis.confidence >= OrDefault(threshold, 85) THEN "publish"
    ELSE "found"

\* lines 152-166: what becomes of an analysed page
Verdict(analysis, fullyAuto, threshold) ==
    IF analysis.confidence > 50 /\ analysis.product.asin # ""
    THEN IF fullyAuto /\ analysis.confidence >= OrDefault(threshold, 85) THEN "publish"
         ELSE "found"
    ELSE "failed"

\* analyzeContentAndFindProduct settles (lines 150-172): the page fails, the
\* proposal is stored, or the fragment is built, the content mutated and the
\* request of pushToWordPress sent
ppAnalyzed(p, analysis, uniqueId) ==
    /\ ppPhase = "await"
    /\ p \in DOMAIN ppAt
    /\ ppAt[p] = "analyze"
    /\ ppAnalysis' = [ppAnalysis EXCEPT ![p] = analysis]
    /\ LET post == ppSaved[p]
           page == ppPage[p]
           postId == IF page.id # 0 THEN page.id ELSE post.id
           box == generateProductBoxHtml(analysis.product, "tag-20", TRUE, uniqueId)
           finalHtml == insertIntoContent(page.content, box, "smart_middle", NoSnippet)
           verdict == Verdict(analysis, ppFullyAuto, ppConfig.autoPublishThreshold)
       IN  CASE verdict = "publish" /\ ~SecurityBlock(ppConfig.wpUrl) ->
                  /\ ppPosts' = [ppPosts EXCEPT ![p] =
                                   [post EXCEPT !.autoPilotStatus = "publishing"]]
                  /\ ppRequests' = [ppRequests EXCEPT ![p] =
                                      Append(@, [postId |-> postId, content |-> finalHtml])]
                  /\ ppAt' = [ppAt EXCEPT ![p] = "publish"]
             [] verdict = "found" ->
                  /\ ppPosts' = [ppPosts EXCEPT ![p] =
                                   [post EXCEPT !.autoPilotStatus = "found",
                                                !.aiConfidence = analysis.confidence,
                                                !.proposedProduct = analysis.product,
                                                !.id = postId]]
                  /\ ppAt' = [ppAt EXCEPT ![p] = "settled"]
                  /\ UNCHANGED ppRequests
             [] OTHER -> \* the proposal is no good, or pushToWordPress threw at once
                  /\ ppPosts' = [ppPosts EXCEPT ![p] = [post EXCEPT !.autoPilotStatus = "failed"]]
                  /\ ppAt' = [ppAt EXCEPT ![p] = "settled"]
                  /\ UNCHANGED ppRequests
    /\ ppTimer' = triggerUIUpdate(ppTimer)
    /\ ppPhase' = ppAwait(ppAt')
    /\ UNCHANGED <<ppFixed, ppTargets, ppI, ppPage, ppResponse, ppSince, ppSink,
                   scVars>>

\* mutant: a rejected request is sent once more
ppResponded_Retry(p, response) ==
    /\ ppPhase = "await"
    /\ p \in DOMAIN ppAt
    /\ ppAt[p] = "publish"
    /\ ppResponse' = [ppResponse EXCEPT ![p] = response]
    /\ IF response = "ok"
       THEN /\ ppPosts' = [ppPosts EXCEPT ![p] =
                             [ppSaved[p] EXCEPT !.monetizationStatus = "monetized",
                                                !.autoPilotStatus = "published",
                                                !.aiConfidence = ppAnalysis[p].confidence]]
            /\ ppAt' = [ppAt EXCEPT ![p] = "settled"]
            /\ UNCHANGED ppRequests
       ELSE IF Len(ppRequests[p]) < 2
       THEN /\ ppRequests' = [ppRequests EXCEPT ![p] = Append(@, @[1])]
            /\ UNCHANGED <<ppPosts, ppAt>>
       ELSE /\ ppPosts' = [ppPosts EXCEPT ![p] = [ppSaved[p] EXCEPT !.autoPilotStatus = "failed"]]
            /\ ppAt' = [ppAt EXCEPT ![p] = "settled"]
            /\ UNCHANGED ppRequests
    /\ ppTimer' = triggerUIUpdate(ppTimer)
    /\ ppPhase' = ppAwait(ppAt')
    /\ UNCHANGED <<ppFixed, ppTargets, ppI, ppPage, ppAnalysis, ppSince, ppSink,
                   scVars>>

\* the request of pushToWordPress settles (utils.ts 561-576, SitemapScanner
\* 159-161, the catch of line 168 and the finally of line 170)
ppResponded(p, response) ==
    /\ ppPhase = "await"
    /\ p \in DOMAIN ppAt
    /\ ppAt[p] = "publish"
    /\ ppResponse' = [ppResponse EXCEPT ![p] = response]
    /\ ppPosts' = [ppPosts EXCEPT ![p] =
                     IF response = "ok"
                     THEN [ppSaved[p] EXCEPT !.monetizationStatus = "monetized",
                                             !.autoPilotStatus = "published",
                                             !.aiConfidence = ppAnalysis[p].confidence]
                     ELSE [ppSaved[p] EXCEPT !.autoPilotStatus = "failed"]]
    /\ ppAt' = [ppAt EXCEPT ![p] = "settled"]
    /\ ppTimer' = triggerUIUpdate(ppTimer)
    /\ ppPhase' = ppAwait(ppAt')
    /\ UNCHANGED <<ppFixed, ppTargets, ppI, ppPage, ppAnalysis, ppRequests,
                   ppSince, ppSink, scVars>>

\* await sleep(50) ends; i += concurrency; the next window, or the end of
\* the run.  The model follows i down to -MaxIdlePasses.
ppWake ==
    /\ ppPhase = "sleep"
    /\ ppI + MaxIdlePasses > 0
    /\ ppI' = ppI + OrDefault(ppConfig.concurrencyLimit, 3)
    /\ LET run == ppLoop(ppI', ppTargets, ppStopSignal, ppSaved, ppPosts, ppAt, ppTimer,
                         ppSince, ppSink)
       IN  /\ ppPhase' = run.phase
           /\ ppPosts' = run.posts
           /\ ppAt' = run.at
           /\ ppTimer' = run.timers
           /\ ppSink' = run.sink
           /\ scStatus' = IF run.flushed THEN "idle" ELSE scStatus
           /\ scPosts' = IF run.flushed THEN run.posts ELSE scPosts
    /\ UNCHANGED <<ppFixed, ppTargets, ppPage, ppAnalysis, ppRequests, ppResponse, ppSince,
                   scStop>>

\* ClockStep milliseconds pass during the run
ppTick ==
    /\ ppPhase \in {"await", "sleep"}
    /\ ppTimer' = [k \in DOMAIN ppTimer |-> Later(ppTimer[k])]
    /\ ppSince' = Later(ppSince)
    /\ <<ppTimer', ppSince'>> # <<ppTimer, ppSince>>
    /\ UNCHANGED <<ppFixed, ppTargets, ppPosts, ppPhase, ppI, ppAt, ppPage, ppAnalysis,
                   ppRequests, ppResponse, ppSink, scVars>>

\* the callback of the timer runs (lines 128-131)
ppTimeout ==
    /\ ppTimer # <<>>
    /\ Head(ppTimer) = TimerDelay
    /\ scPosts' = ppPosts
    /\ ppSink' = Append(ppSink, Emission("throttled", ppSince, <<>>))
    /\ ppTimer' = Tail(ppTimer)
    /\ ppSince' = 0
    /\ UNCHANGED <<ppFixed, ppTargets, ppPosts, ppPhase, ppI, ppAt, ppPage, ppAnalysis,
                   ppRequests, ppResponse, scStatus, scStop>>

(***************************************************************************)
(* runPriorityAnalysis (src/components/SitemapScanner.tsx 45-100) over     *)
(* runConcurrent, started by the Re-Analyze button (line 222) on           *)
(* savedState.posts.                                                       *)
(***************************************************************************)
TriageTitles == {<<"review">>, <<"Best">>, <<"word">>}

\* what handleFetchSitemap makes of a sitemap entry (lines 29-31)
FreshPost(title) == Post(title, "unknown", <<>>, "opportunity", "idle", "low")

\* fresh pages, a review that an earlier analysis found monetized (it keeps
\* the snippet of its content), and a page that a run has published
TriagePosts ==
    { FreshPost(title) : title \in TriageTitles }
    \cup { Post(<<"review">>, "review", <<"c", "amazon.com/">>, "monetized", "idle", "medium"),
           Post(<<"word">>, "info", <<>>, "monetized", "published", "low") }

\* the content fetchPageContent resolves with: none at all, text, text with
\* an affiliate link
TriagePages ==
    { [id |-> 7, content |-> content] :
        content \in {<<>>, <<"filler">>, <<"c", "AMZN.TO/">>} }

SnippetLength == 1000
\* s.substring(0, n): the fragments that fit and, where the cut falls inside
\* a fragment, what is left of it
Substring(s, n) ==
    LET fits == {k \in 0..Len(s) : StrLen(SubSeq(s, 1, k)) <= n}
        m == CHOOSE k \in fits : \A j \in fits : j <= k
    IN  SubSeq(s, 1, m)
        \o (IF m < Len(s) /\ StrLen(SubSeq(s, 1, m)) < n THEN <<"cut">> ELSE <<>>)

\* runConcurrent(highValueTargets, 5, ...) and processed % 5
TriageConcurrency == 5
TriageBatch == 5

\* lines 51-55: the title-only classification of a post
PhaseOne(post) ==
    LET analysis == calculatePostPriority(post.title, <<>>)
    IN  [post EXCEPT !.priority = analysis.priority,
                     !.postType = analysis.type,
                     !.monetizationStatus = analysis.status]

\* mutant: phase 2 keeps the status of phase 1
PhaseTwo_KeepStatus(post, page) ==
    LET analysis == calculatePostPriority(post.title, page.content)
    IN  [post EXCEPT !.content = Substring(page.content, SnippetLength),
                     !.priority = analysis.priority,
                     !.postType = analysis.type]

\* lines 77-85: the classification of a post by its fetched content
PhaseTwo(post, page) ==
    LET analysis == calculatePostPriority(post.title, page.content)
    IN  [post EXCEPT !.content = Substring(page.content, SnippetLength),
                     !.priority = analysis.priority,
                     !.postType = analysis.type,
                     !.monetizationStatus = analysis.status]

\* lines 62-66: highValueTargets, in the order of the map
\* mutant: every page is deep-scanned
HighValueTargets_All(map) == InOrder(1..Len(map))

HighValueTargets(map) ==
    InOrder({ p \in 1..Len(map) : /\ map[p].postType \in {"review", "listicle"}
                                  /\ map[p].content = <<>>
                                  /\ map[p].monetizationStatus = "opportunity" })

trChunk == ChunkOf(trI, TriageConcurrency, Len(trTargets))
trItem(k) == trTargets[k + 1]

trIdle ==
    /\ trStopSignal = FALSE
    /\ trArg = <<>>
    /\ trMap = <<>>
    /\ trTargets = <<>>
    /\ trPhase = "off"
    /\ trI = 0
    /\ trAt = <<>>
    /\ trPage = <<>>
    /\ trProcessed = 0

\* the handler before Re-Analyze Priorities is pressed
trReady ==
    /\ trStopSignal = FALSE
    /\ trArg = <<>>
    /\ trMap = <<>>
    /\ trTargets = <<>>
    /\ trPhase = "idle"
    /\ trI = 0
    /\ trAt = <<>>
    /\ trPage = <<>>
    /\ trProcessed = 0

\* the component before the analysis: any pages, the stop flag as an earlier
\* run left it
trInit ==
    /\ trReady
    /\ scPosts \in SeqsUpTo(TriagePosts, MaxPosts)
    /\ scStatus = "idle"
    /\ scStop \in BOOLEAN

\* runConcurrent from the test of its loop at i up to the next await, and,
\* when the loop is over, lines 98-99.  A window starts: every worker of it
\* runs up to its await (lines 73-76), or returns at once on the stop flag,
\* and then Promise.all resolves and sleep(50) is awaited.
trLoop(i, targets, stop, at) ==
    LET started == { targets[k + 1] : k \in ChunkOf(i, TriageConcurrency, Len(targets)) }
    IN  IF i < Len(targets)
        THEN [phase |-> IF stop THEN "sleep" ELSE "await",
              at |-> [p \in DOMAIN at |->
                        IF p \in started THEN (IF stop THEN "settled" ELSE "fetch")
                        ELSE at[p]],
              flushed |-> FALSE]
        ELSE [phase |-> "done", at |-> at, flushed |-> TRUE]

trAwait(at) == IF \A k \in trChunk : at[trItem(k)] = "settled" THEN "sleep" ELSE "await"

\* Re-Analyze Priorities is pressed, the button being disabled unless status
\* is idle (line 222): lines 46-72 and runConcurrent up to its first await
trStart ==
    /\ trPhase = "idle"
    /\ scStatus = "idle"
    /\ LET map == [p \in 1..Len(scPosts) |-> PhaseOne(scPosts[p])]
           targets == HighValueTargets(map)
           run == trLoop(0, targets, scStop, [p \in 1..Len(scPosts) |-> "none"])
       IN  /\ trStopSignal' = scStop
           /\ trArg' = scPosts
           /\ trMap' = map
           /\ scPosts' = map
           /\ trTargets' = targets
           /\ trAt' = run.at
           /\ trPage' = [p \in 1..Len(scPosts) |-> NoPage]
           /\ trPhase' = run.phase
           /\ scStatus' = IF run.flushed THEN "idle" ELSE "analyzing"
    /\ UNCHANGED <<trI, trProcessed, scStop>>

\* fetchPageContent settles (lines 76-94); fetched = FALSE: it rejects
trFetched(p, fetched, page) ==
    /\ trPhase = "await"
    /\ p \in DOMAIN trAt
    /\ trAt[p] = "fetch"
    /\ trAt' = [trAt EXCEPT ![p] = "settled"]
    /\ IF fetched
       THEN /\ trPage' = [trPage EXCEPT ![p] = page]
            /\ trMap' = [trMap EXCEPT ![p] = PhaseTwo(trMap[p], page)]
       ELSE UNCHANGED <<trPage, trMap>>
    /\ trProcessed' = trProcessed + 1
    /\ IF trProcessed' % TriageBatch = 0
       THEN scPosts' = trMap'
       ELSE UNCHANGED scPosts
    /\ trPhase' = trAwait(trAt')
    /\ UNCHANGED <<trStopSignal, trArg, trTargets, trI, scStatus, scStop>>

\* await sleep(50) ends; i += concurrency; the next window, or the end of
\* the analysis
trWake ==
    /\ trPhase = "sleep"
    /\ trI' = trI + TriageConcurrency
    /\ LET run == trLoop(trI', trTargets, trStopSignal, trAt)
       IN  /\ trPhase' = run.phase
           /\ trAt' = run.at
           /\ scStatus' = IF run.flushed THEN "idle" ELSE scStatus
           /\ scPosts' = IF run.flushed THEN trMap ELSE scPosts
    /\ UNCHANGED <<trStopSignal, trArg, trMap, trTargets, trPage, trProcessed, scStop>>

\* runAutonomousPipeline has returned (line 178): its postMap, its timer and
\* its closure are gone, and the button starts the next run by the handler
\* of the render that followed
ppReturn ==
    /\ ppPhase \in {"done", "refused"}
    /\ ppPhase' = "idle"
    /\ ppStopSignal' = FALSE
    /\ ppSaved' = <<>>
    /\ ppTargets' = <<>>
    /\ ppPosts' = <<>>
    /\ ppI' = 0
    /\ ppAt' = <<>>
    /\ ppPage' = <<>>
    /\ ppAnalysis' = <<>>
    /\ ppRequests' = <<>>
    /\ ppResponse' = <<>>
    /\ ppTimer' = <<>>
    /\ ppSince' = TimerDelay
    /\ ppSink' = <<>>
    /\ UNCHANGED <<ppConfig, ppFullyAuto, scVars>>

\* the steps of the run, the network answering from the given sets
ppSteps(pages, analyses, responses) ==
    \/ ppStart /\ UNCHANGED ppOthers
    \/ \E p \in 1..MaxPosts, fetched \in BOOLEAN, page \in pages :
          ppFetched(p, fetched, page) /\ UNCHANGED ppOthers
    \/ \E p \in 1..MaxPosts, analysis \in analyses, uniqueId \in PipelineUniqueIds :
          ppAnalyzed(p, analysis, uniqueId) /\ UNCHANGED ppOthers
    \/ \E p \in 1..MaxPosts, response \in responses :
          ppResponded(p, response) /\ UNCHANGED ppOthers
    \/ ppWake /\ UNCHANGED ppOthers

\* the run of the pipeline with the operator idle and no timer due
ppNext == ppSteps(FetchedPages, Analyses, PublishResponses)

\* the clock and the timer
pgNext ==
    \/ ppTick /\ UNCHANGED ppOthers
    \/ ppTimeout /\ UNCHANGED ppOthers

\* the operator at the STOP button
opNext == scPressStop /\ UNCHANGED scOthers

\* the operator at the reset button
rsNext == scReset /\ UNCHANGED scOthers

trNext ==
    \/ trStart /\ UNCHANGED trOthers
    \/ \E p \in 1..MaxPosts, fetched \in BOOLEAN, page \in TriagePages :
          trFetched(p, fetched, page) /\ UNCHANGED trOthers
    \/ trWake /\ UNCHANGED trOthers

(***************************************************************************)
(* fetchWithProxy (src/utils.ts 175-199): the relays of a call, tried in   *)
(* the order the preferred relay gives, and the preference the module      *)
(* keeps from one call to the next.  Calls overlap: the workers of a       *)
(* window fetch at the same time.                                          *)
(***************************************************************************)

\* the calls of a behaviour
MaxProxyCalls == 2

\* proxies (lines 177-181), by index
ProxyCount == 3
proxies == [k \in 1..ProxyCount |-> k - 1]

\* what a relay does with a request: response.ok, a response that is not
\* ok, or fetch rejects
RelayOutcomes == {"ok", "notOk", "throws"}

\* lines 183-186
orderedProxies(preferred) ==
    <<preferred>> \o SelectSeq(proxies, LAMBDA r : r # preferred)

\* mutant: the preference is not recorded
preferredAfter_Kept(preferred, relay) == preferred

\* lines 192-193: originalIndex is the index of the relay that answered, the
\* urls of the relays being distinct
preferredAfter(preferred, relay) == relay

\* the last relay that is known to have succeeded after the first n
\* successes of the log, relay 0 when there is none (line 175)
LastSucceeded(log, n) == IF n = 0 THEN 0 ELSE log[n]

pxIdle ==
    /\ pxPreferred = 0
    /\ pxCalls = <<>>
    /\ pxLog = <<>>

pxInit == pxIdle

\* fetchWithProxy(url) is called: lines 177-186 and the first fetch
pxCall ==
    /\ Len(pxCalls) < MaxProxyCalls
    /\ pxCalls' = Append(pxCalls, [ordered |-> orderedProxies(pxPreferred),
                                   i |-> 1,
                                   tried |-> <<>>,
                                   before |-> Len(pxLog),
                                   result |-> "pending"])
    /\ UNCHANGED <<pxPreferred, pxLog>>

\* the fetch of call c settles (lines 188-198)
pxSettled(c, outcome) ==
    /\ c \in DOMAIN pxCalls
    /\ pxCalls[c].result = "pending"
    /\ LET call == pxCalls[c]
           relay == call.ordered[call.i]
           tried == Append(call.tried, [relay |-> relay, outcome |-> outcome])
       IN  IF outcome = "ok"
           THEN /\ pxPreferred' = preferredAfter(pxPreferred, relay)
                /\ pxLog' = Append(pxLog, relay)
                /\ pxCalls' = [pxCalls EXCEPT ![c].tried = tried, ![c].result = "response"]
           ELSE /\ pxCalls' = [pxCalls EXCEPT
                                 ![c].tried = tried,
                                 ![c].i = call.i + 1,
                                 ![c].result = IF call.i + 1 > Len(call.ordered)
                                               THEN "error" ELSE "pending"]
                /\ UNCHANGED <<pxPreferred, pxLog>>

pxNext ==
    \/ pxCall /\ UNCHANGED pxOthers
    \/ \E c \in 1..MaxProxyCalls, outcome \in RelayOutcomes :
          pxSettled(c, outcome) /\ UNCHANGED pxOthers

(***************************************************************************)
(* fetchRawPostContent (src/utils.ts 336-385) with resolveWordpressId      *)
(* (323-334) and fetchPageContent (251-278): the paths a call takes to the *)
(* content of a post, and what it returns or throws.                       *)
(***************************************************************************)

\* postId: unknown, or the id the sitemap gave
PostIds == {0, 5}

\* postUrl, as the segments between its slashes: absent, the home page, or
\* a permalink that ends in a slug
NoUrl == <<>>
PostUrls == {NoUrl, <<"blog.example">>, <<"blog.example", "best-toasters">>}

\* lines 373-374: postUrl.split('/').filter(Boolean).pop() || ""
SlugOf(postUrl) == IF postUrl = NoUrl THEN "" ELSE postUrl[Len(postUrl)]

\* the REST endpoint answers a GET of a post: the post, a status that is not
\* ok, or fetch rejects
RestOutcomes == {"ok", "401", "404", "500", "Failed to fetch"}

\* resolveWordpressId: the id of the post with the slug, or null
NoId == 0
ResolvedIds == {NoId, 7}

\* fetchPageContent: the page, or what it throws (lines 256-257, 198)
PageOutcomes == {"ok", "Failed to load page", "Proxy Error: All proxies failed."}

\* line 383
PermalinkError == "Failed to sync post. Ensure Permalinks are set to 'Post Name' in WP."

Returned(source, id) == [kind |-> "value", source |-> source, resolvedId |-> id]
Thrown(message) == [kind |-> "error", message |-> message]
NoResult == [kind |-> "none"]

frIdle ==
    /\ frPostId = 0
    /\ frPostUrl = NoUrl
    /\ frCached = FALSE
    /\ frPc = "idle"
    /\ frRealId = NoId
    /\ frPaths = <<>>
    /\ frResult = NoResult

frInit ==
    /\ frPostId \in PostIds
    /\ frPostUrl \in PostUrls
    /\ frCached \in BOOLEAN
    /\ frPc = "idle"
    /\ frRealId = NoId
    /\ frPaths = <<>>
    /\ frResult = NoResult

\* the catch block up to its first await (lines 371-383)
frCatch(postUrl) ==
    IF postUrl # NoUrl /\ SlugOf(postUrl) # ""
    THEN [pc |-> "resolve", result |-> NoResult]
    ELSE IF postUrl # NoUrl
    THEN [pc |-> "page", result |-> NoResult]
    ELSE [pc |-> "done", result |-> Thrown(PermalinkError)]

\* fetchRawPostContent is called: lines 337-369 up to the first await
frCall ==
    /\ frPc = "idle"
    /\ IF frCached
       THEN /\ frPc' = "done"
            /\ frResult' = Returned("cache", frPostId)
       ELSE IF frPostId > 0
       THEN /\ frPc' = "byId"
            /\ frResult' = NoResult
       ELSE /\ frPc' = frCatch(frPostUrl).pc
            /\ frResult' = frCatch(frPostUrl).result
    /\ UNCHANGED <<frPostId, frPostUrl, frCached, frRealId, frPaths>>

\* fetchById(postId) settles (lines 345-366, 369)
frById(outcome) ==
    /\ frPc = "byId"
    /\ frPaths' = Append(frPaths, [path |-> "byId", outcome |-> outcome])
    /\ IF outcome = "ok"
       THEN /\ frPc' = "done"
            /\ frResult' = Returned("rest", frPostId)
       ELSE /\ frPc' = frCatch(frPostUrl).pc
            /\ frResult' = frCatch(frPostUrl).result
    /\ UNCHANGED <<frPostId, frPostUrl, frCached, frRealId>>

\* resolveWordpressId settles (lines 375-376): it never throws
frResolved(realId) ==
    /\ frPc = "resolve"
    /\ frPaths' = Append(frPaths, [path |-> "resolve",
                                   outcome |-> IF realId = NoId THEN "null" ELSE "ok"])
    /\ frRealId' = realId
    /\ frPc' = IF realId # NoId THEN "retry" ELSE "page"
    /\ UNCHANGED <<frPostId, frPostUrl, frCached, frResult>>

\* fetchById(realId) settles (line 376): what it throws leaves the catch
\* block
frRetried(outcome) ==
    /\ frPc = "retry"
    /\ frPaths' = Append(frPaths, [path |-> "retry", outcome |-> outcome])
    /\ frPc' = "done"
    /\ frResult' = IF outcome = "ok" THEN Returned("rest", frRealId) ELSE Thrown(outcome)
    /\ UNCHANGED <<frPostId, frPostUrl, frCached, frRealId>>

\* fetchPageContent(postUrl) settles (lines 379-381): what it throws leaves
\* the catch block
frPage(outcome) ==
    /\ frPc = "page"
    /\ frPaths' = Append(frPaths, [path |-> "page", outcome |-> outcome])
    /\ frPc' = "done"
    /\ frResult' = IF outcome = "ok" THEN Returned("page", 0) ELSE Thrown(outcome)
    /\ UNCHANGED <<frPostId, frPostUrl, frCached, frRealId>>

frNext ==
    \/ frCall /\ UNCHANGED frOthers
    \/ \E outcome \in RestOutcomes : frById(outcome) /\ UNCHANGED frOthers
    \/ \E realId \in ResolvedIds : frResolved(realId) /\ UNCHANGED frOthers
    \/ \E outcome \in RestOutcomes : frRetried(outcome) /\ UNCHANGED frOthers
    \/ \E outcome \in PageOutcomes : frPage(outcome) /\ UNCHANGED frOthers

(***************************************************************************)
(* pushToWordPress (src/utils.ts 553-578): what a call returns or throws   *)
(* for each answer of the site.  A message is the sequence of its parts.   *)
(***************************************************************************)

\* config.wpUrl as <<scheme, rest>>
PushUrls == WpUrls \cup {<<"https://", "blog.example">>}

\* window.location as <<protocol, host>>
Locations == {<<"https:", "app.example">>, <<"http:", "localhost:3000">>}
OriginOf(location) == <<location[1], "//", location[2]>>

\* the id of a record of the sitemap (line 246: id: 0), and the ids
\* fetchPageContent finds in a page: that of its shortlink or postid- class,
\* 0 when it has neither (lines 262-271)
SitemapId == NoId
FoundIds == {NoId, 5}

\* the post ids of the callers: page.id || post.id in the pipeline
\* (SitemapScanner.tsx 159), and in the editor the resolvedId page.id || 0 of
\* fetchRawPostContent, from a record of the sitemap (LandingPage.tsx 273)
PublishId(pageId, postId) == IF pageId # NoId THEN pageId ELSE postId
PushIds == { PublishId(pageId, SitemapId) : pageId \in FoundIds }

\* the site answers with a status, or fetch rejects with the TypeError of
\* the browser
PushStatuses == {200, 201, 401, 403, 404, 500}
FetchRejections ==
    { <<"Failed to fetch">>,
      <<"NetworkError when attempting to fetch resource.">>,
      <<"Load failed">> }
PushOutcomes ==
    { [kind |-> "status", status |-> s] : s \in PushStatuses }
    \cup { [kind |-> "rejects", message |-> msg] : msg \in FetchRejections }

\* response.ok
IsOk(status) == status >= 200 /\ status <= 299

\* `${response.status}`
StatusText(status) == ToString(status)

\* lines 554-558, for any location
PushBlocked(location, wpUrl) ==
    LET scheme == IF wpUrl[1] \in {"http://", "https://"} THEN wpUrl[1] ELSE "https://"
    IN  location[1] = "https:" /\ scheme = "http://"

\* lines 565-570: what the try block returns or throws
PushTry(outcome) ==
    IF outcome.kind = "rejects" THEN Thrown(outcome.message)
    ELSE IF ~IsOk(outcome.status)
    THEN IF outcome.status = 401 THEN Thrown(<<"WP Auth Failed (", "401", ")">>)
         ELSE Thrown(<<"WP Error: ", StatusText(outcome.status)>>)
    ELSE [kind |-> "value", link |-> "link"]

\* lines 571-577: the catch block
PushCatch(location, tried) ==
    IF tried.kind # "error" THEN tried
    ELSE IF Includes(tried.message, "Failed to fetch")
    THEN Thrown(<<"CORS Error: Add '">> \o OriginOf(location) \o <<"' to WP CORS Plugin.">>)
    ELSE tried

pwIdle ==
    /\ pwUrl = <<"", "">>
    /\ pwLocation = <<"https:", "app.example">>
    /\ pwPostId = 0
    /\ pwPc = "idle"
    /\ pwOutcome = [kind |-> "none"]
    /\ pwResult = NoResult

pwInit ==
    /\ pwUrl \in PushUrls
    /\ pwLocation \in Locations
    /\ pwPostId \in PushIds
    /\ pwPc = "idle"
    /\ pwOutcome = [kind |-> "none"]
    /\ pwResult = NoResult

\* pushToWordPress is called: lines 554-560 up to the await of fetch
pwCall ==
    /\ pwPc = "idle"
    /\ IF PushBlocked(pwLocation, pwUrl)
       THEN /\ pwPc' = "done"
            /\ pwResult' = Thrown(<<"Security Block: HTTPS App -> HTTP Site.">>)
       ELSE /\ pwPc' = "fetch"
            /\ pwResult' = NoResult
    /\ UNCHANGED <<pwUrl, pwLocation, pwPostId, pwOutcome>>

\* the fetch settles: lines 565-577
pwAnswered(outcome) ==
    /\ pwPc = "fetch"
    /\ pwOutcome' = outcome
    /\ pwPc' = "done"
    /\ pwResult' = PushCatch(pwLocation, PushTry(outcome))
    /\ UNCHANGED <<pwUrl, pwLocation, pwPostId>>

pwNext ==
    \/ pwCall /\ UNCHANGED pwOthers
    \/ \E outcome \in PushOutcomes : pwAnswered(outcome) /\ UNCHANGED pwOthers

(***************************************************************************)
(* analyzeContentAndFindProduct (src/utils.ts 414-551) called a second     *)
(* time with the arguments of a call that has returned.                    *)
(***************************************************************************)

\* the calls of a behaviour
MaxAnalyzeCalls == 2

acIdle ==
    /\ acCalls = 0
    /\ acFirst = NoAnalysis

acInit ==
    /\ acCalls = 1
    /\ acFirst = NoAnalysis

\* the caller calls again with the same title, content, config and options:
\* the function starts at line 422 as it did the first time, no line of it
\* reading CacheService
acAgain ==
    /\ anPc = "done"
    /\ acCalls < MaxAnalyzeCalls
    /\ acCalls' = acCalls + 1
    /\ acFirst' = IF acCalls = 1 THEN anResult ELSE acFirst
    /\ anPc' = "start"
    /\ anRetries' = AiRetries
    /\ anDelay' = AiDelay
    /\ anLog' = <<>>
    /\ anCaught' = FALSE
    /\ anRequest' = [useGrounding |-> FALSE, instruction |-> "none"]
    /\ anResult' = NoAnalysis
    /\ UNCHANGED <<anOptions, anHtml, anConfig>>

acNext == acAgain /\ UNCHANGED acOthers

(***************************************************************************)
(* The init effect of the editor (src/components/LandingPage.tsx 160-213), *)
(* which runs again whenever the post prop changes (onSwitchPost).  What   *)
(* the editor shows is tagged with the post it was fetched or analysed     *)
(* for.                                                                    *)
(***************************************************************************)
MaxSwitches == 2

\* the posts of the list; the pipeline has left a proposedProduct on one
EditorPosts == {"a", "b", "c"}
Proposed == {"c"}
NoPost == "none"

\* post.proposedProduct || null
Nothing == [kind |-> "null"]
ProposedOf(post) ==
    IF post \in Proposed THEN [kind |-> "proposed", of |-> post] ELSE Nothing
\* what analyzeContentAndFindProduct(result.title, clean, ...) resolves with
AnalysisOf(post, asin) == [kind |-> "analysis", of |-> post, asin |-> asin]

\* lines 161-167 and 169-171: the state is reset and init() is called, up to
\* its await of fetchRawPostContent
edEffect(post) == [post |-> post, pc |-> "fetch", isMounted |-> TRUE]

edIdle ==
    /\ edPost = NoPost
    /\ edProduct = Nothing
    /\ edManualAsin = NoPost
    /\ edRawContent = NoPost
    /\ edInits = <<>>
    /\ edSwitches = 0

\* the editor is opened on a post: useState (lines 143-156) and the effect
edInit ==
    /\ edPost \in EditorPosts
    /\ edProduct = ProposedOf(edPost)
    /\ edManualAsin = NoPost
    /\ edRawContent = NoPost
    /\ edInits = <<edEffect(edPost)>>
    /\ edSwitches = 0

\* onSwitchPost(p) (line 292): the post prop changes, the cleanup of the
\* effect sets isMounted of the init() under way to false (line 212) and the
\* effect runs for the new post
edSwitch(post) ==
    /\ edSwitches < MaxSwitches
    /\ post # edPost
    /\ edSwitches' = edSwitches + 1
    /\ edPost' = post
    /\ edProduct' = ProposedOf(post)
    /\ edManualAsin' = NoPost
    /\ edRawContent' = NoPost
    /\ edInits' = Append([k \in DOMAIN edInits |-> [edInits[k] EXCEPT !.isMounted = FALSE]],
                         edEffect(post))

\* fetchRawPostContent settles (lines 174-208); fetched = FALSE: it throws.
\* hasContent is result.content being not empty.
edFetched(k, fetched, hasContent) ==
    /\ k \in DOMAIN edInits
    /\ edInits[k].pc = "fetch"
    /\ LET init == edInits[k]
           searching == /\ fetched /\ init.isMounted /\ hasContent
                        /\ init.post \notin Proposed
       IN  /\ edRawContent' = IF init.isMounted THEN init.post ELSE edRawContent
           /\ edInits' = [edInits EXCEPT ![k].pc = IF searching THEN "analyze" ELSE "done"]
    /\ UNCHANGED <<edPost, edProduct, edManualAsin, edSwitches>>

\* analyzeContentAndFindProduct settles (lines 186-193): asin is whether the
\* product it found has one
edAnalyzed(k, asin) ==
    /\ k \in DOMAIN edInits
    /\ edInits[k].pc = "analyze"
    /\ edProduct' = AnalysisOf(edInits[k].post, asin)
    /\ edManualAsin' = IF asin THEN edInits[k].post ELSE edManualAsin
    /\ edInits' = [edInits EXCEPT ![k].pc = "done"]
    /\ UNCHANGED <<edPost, edRawContent, edSwitches>>

edNext ==
    \/ \E post \in EditorPosts : edSwitch(post) /\ UNCHANGED edOthers
    \/ \E k \in 1..(MaxSwitches + 1), fetched \in BOOLEAN, hasContent \in BOOLEAN :
          edFetched(k, fetched, hasContent) /\ UNCHANGED edOthers
    \/ \E k \in 1..(MaxSwitches + 1), asin \in BOOLEAN :
          edAnalyzed(k, asin) /\ UNCHANGED edOthers

(***************************************************************************)
(* Specifications.                                                         *)
(***************************************************************************)
(***************************************************************************)
(* The answer of analyzeContentAndFindProduct in single-product mode from  *)
(* the parsed response on (src/utils.ts 494-540): mapToProduct(data) and   *)
(* the confidence.                                                         *)
(***************************************************************************)
\* what the model gives as asin: none, a text that is no identifier, an
\* identifier; as imageUrl: none, a relative path, a URL; as confidence: none
\* or a number from 0 to 100
ResponseAsins == {Undefined, <<"N/A">>, <<"B0AI000001">>}
ResponseImages == {Undefined, <<"/img/ai.jpg">>, <<"https://", "ai.jpg">>}
ResponseConfidences == {NoConfidence, 0, 1, 85, 100}
ParsedResponses ==
    [confidence : ResponseConfidences, asin : ResponseAsins, productName : {<<"Widget">>},
     price : {<<"$10">>}, imageUrl : ResponseImages]
MappedOptions ==
    [manualAsin : {Undefined, <<"B0MANUAL01">>},
     manualImage : {Undefined, <<"https://", "manual.jpg">>},
     fallbackImage : {Undefined, <<"https://", "featured.jpg">>}]

mpIdle ==
    /\ mpD = ObjEmpty
    /\ mpOptions = [manualAsin |-> Undefined, manualImage |-> Undefined,
                    fallbackImage |-> Undefined]
    /\ mpPc = "off"
    /\ mpProduct = EmptyProduct
    /\ mpConfidence = NoConfidence

\* JSON.parse has given data (line 489)
mpInit ==
    /\ mpD \in ParsedResponses
    /\ mpOptions \in MappedOptions
    /\ mpPc = "parsed"
    /\ mpProduct = EmptyProduct
    /\ mpConfidence = NoConfidence

\* lines 537-538: const prod = mapToProduct(data); if (manualAsin) prod.asin = manualAsin
mpMapped ==
    /\ mpPc = "parsed"
    /\ LET prod == mapToProduct(mpD, mpOptions.manualAsin, mpOptions.manualImage,
                                mpOptions.fallbackImage).product
       IN  mpProduct' = IF Truthy(mpOptions.manualAsin)
                        THEN [prod EXCEPT !.asin = mpOptions.manualAsin] ELSE prod
    /\ mpPc' = "mapped"
    /\ UNCHANGED <<mpD, mpOptions, mpConfidence>>

\* line 539: return {product: prod, detectedProducts: [prod], confidence: data.confidence || 85}
mpReturned ==
    /\ mpPc = "mapped"
    /\ mpConfidence' = ConfidenceOf(mpD)
    /\ mpPc' = "done"
    /\ UNCHANGED <<mpD, mpOptions, mpProduct>>

mpNext ==
    \/ mpMapped /\ UNCHANGED mpOthers
    \/ mpReturned /\ UNCHANGED mpOthers

extIdle == acIdle /\ edIdle /\ mpIdle
netIdle == pxIdle /\ frIdle /\ pwIdle /\ extIdle
scOff == ppIdle /\ trIdle /\ scIdle /\ netIdle

InitRunner == rcInit /\ clIdle /\ caIdle /\ muIdle /\ anIdle /\ scOff
SpecRunner == InitRunner /\ [][rcNext]_vars

InitClassifier == clInit /\ rcIdle /\ caIdle /\ muIdle /\ anIdle /\ scOff
SpecClassifier == InitClassifier /\ [][clNext]_vars

InitCache == caInit /\ rcIdle /\ clIdle /\ muIdle /\ anIdle /\ scOff
SpecCache == InitCache /\ [][caNext]_vars

InitPages == fpInit /\ rcIdle /\ clIdle /\ muIdle /\ anIdle /\ scOff
SpecPages == InitPages /\ [][fpNext]_vars

InitMutator == muInit /\ rcIdle /\ clIdle /\ caIdle /\ anIdle /\ scOff
SpecMutator == InitMutator /\ [][muNext]_vars

InitAnalyze == anInit /\ rcIdle /\ clIdle /\ caIdle /\ muIdle /\ scOff
SpecAnalyze == InitAnalyze /\ [][anNext]_vars

InitPipeline == ppInit /\ trIdle /\ rcIdle /\ clIdle /\ caIdle /\ muIdle /\ anIdle /\ netIdle
SpecPipeline == InitPipeline /\ [][ppNext]_vars

InitTriage == trInit /\ ppIdle /\ rcIdle /\ clIdle /\ caIdle /\ muIdle /\ anIdle /\ netIdle
SpecTriage == InitTriage /\ [][trNext]_vars

\* a run that publishes on a site that takes the posts
ProgressConfigs ==
    [wpUrl : {<<"", "blog.example/">>}, autoPublishThreshold : {0},
     concurrencyLimit : ConcurrencyLimits]
ProgressPosts == { SavedPost("opportunity", "idle", "low") }
ProgressAnalyses == { a \in Analyses : a.confidence = 90 }
ProgressResponses == {"ok", "500"}

InitProgress ==
    /\ ppConfig \in ProgressConfigs
    /\ ppFullyAuto = TRUE
    /\ ppReady
    /\ scPosts \in SeqsUpTo(ProgressPosts, MaxPosts)
    /\ scStatus = "idle"
    /\ scStop = FALSE
    /\ trIdle /\ rcIdle /\ clIdle /\ caIdle /\ muIdle /\ anIdle /\ netIdle
SpecProgress ==
    InitProgress /\ [][ppSteps(FetchedPages, ProgressAnalyses, ProgressResponses) \/ pgNext]_vars

\* a run with any number as config.concurrencyLimit (src/types.ts 15)
AnyLimits == {-1, 0, 1, 2}
InitLimits ==
    /\ ppConfig \in [wpUrl : {<<"", "blog.example/">>}, autoPublishThreshold : {0},
                     concurrencyLimit : AnyLimits]
    /\ ppFullyAuto \in BOOLEAN
    /\ ppReady
    /\ scPosts \in SeqsUpTo(ProgressPosts, MaxPosts)
    /\ scStatus = "idle"
    /\ scStop = FALSE
    /\ trIdle /\ rcIdle /\ clIdle /\ caIdle /\ muIdle /\ anIdle /\ netIdle
SpecLimits == InitLimits /\ [][ppSteps(FetchedPages, ProgressAnalyses, ProgressResponses)]_vars

\* the component with both handlers ready: a fresh review, or one that an
\* earlier analysis found monetized
ScannerPosts ==
    { FreshPost(<<"review">>),
      Post(<<"review">>, "review", <<"c", "amazon.com/">>, "monetized", "idle", "medium") }

InitScanner ==
    /\ ppConfig \in ProgressConfigs
    /\ ppFullyAuto = TRUE
    /\ ppReady
    /\ trReady
    /\ scPosts \in SeqsUpTo(ScannerPosts, MaxScanPosts)
    /\ scStatus = "idle"
    /\ scStop = FALSE
    /\ rcIdle /\ clIdle /\ caIdle /\ muIdle /\ anIdle /\ netIdle
SpecScanner ==
    InitScanner /\ [][\/ ppSteps(FetchedPages, ProgressAnalyses, ProgressResponses)
                      \/ pgNext
                      \/ opNext
                      \/ trNext]_vars

\* the component as it is mounted: isFullyAuto is useState(false) (line 19)
\* and nothing of the component calls setIsFullyAuto, so the runs of the
\* operator are those of RUN AUTO-PILOT and STOP with the flag off
MountedPosts ==
    { SavedPost("opportunity", "idle", "low"),
      SavedPost("opportunity", "failed", "critical"),
      SavedPost("monetized", "idle", "medium") }

InitMounted ==
    /\ ppConfig \in [wpUrl : WpUrls, autoPublishThreshold : AutoPublishThresholds,
                     concurrencyLimit : ConcurrencyLimits]
    /\ ppFullyAuto = FALSE
    /\ ppReady
    /\ scPosts \in SeqsUpTo(MountedPosts, MaxPosts)
    /\ scStatus = "idle"
    /\ scStop = FALSE
    /\ trIdle /\ rcIdle /\ clIdle /\ caIdle /\ muIdle /\ anIdle /\ netIdle

\* the steps such a run takes: no request is sent, so none is answered
ppMountedNext ==
    \/ ppStart /\ UNCHANGED ppOthers
    \/ \E p \in 1..MaxPosts, fetched \in BOOLEAN, page \in FetchedPages :
          ppFetched(p, fetched, page) /\ UNCHANGED ppOthers
    \/ \E p \in 1..MaxPosts, analysis \in Analyses, uniqueId \in PipelineUniqueIds :
          ppAnalyzed(p, analysis, uniqueId) /\ UNCHANGED ppOthers
    \/ ppWake /\ UNCHANGED ppOthers

SpecMounted == InitMounted /\ [][ppMountedNext \/ opNext]_vars

\* run after run from the mounted component
InitRuns == InitMounted
rnNext == ppReturn /\ UNCHANGED ppOthers
SpecRuns == InitRuns /\ [][ppMountedNext \/ opNext \/ rnNext]_vars

\* the mounted component with both handlers ready
InitOverlap ==
    /\ ppConfig \in ProgressConfigs
    /\ ppFullyAuto = FALSE
    /\ ppReady
    /\ trReady
    /\ scPosts \in SeqsUpTo(ScannerPosts, MaxScanPosts)
    /\ scStatus = "idle"
    /\ scStop = FALSE
    /\ rcIdle /\ clIdle /\ caIdle /\ muIdle /\ anIdle /\ netIdle
SpecOverlap == InitOverlap /\ [][ppMountedNext \/ pgNext \/ opNext \/ trNext]_vars

\* the mounted component with pages, both handlers ready and the reset
\* button
InitReset == InitOverlap /\ scPosts # <<>>
SpecReset == InitReset /\ [][ppMountedNext \/ pgNext \/ trNext \/ rsNext]_vars

\* either handler running on its own
InitHandlers == InitTriage \/ InitProgress
SpecHandlers == InitHandlers /\ [][trNext \/ ppNext]_vars

SpecStop == InitPipeline /\ [][ppNext \/ opNext]_vars

localOff ==
    rcIdle /\ clIdle /\ caIdle /\ muIdle /\ anIdle /\ ppIdle /\ trIdle /\ scIdle /\ extIdle

InitProxy == pxInit /\ frIdle /\ pwIdle /\ localOff
SpecProxy == InitProxy /\ [][pxNext]_vars

InitRawPost == frInit /\ pxIdle /\ pwIdle /\ localOff
SpecRawPost == InitRawPost /\ [][frNext]_vars

\* insertIntoContent on content the CMS returned rendered
InitRendered ==
    /\ \E kinds \in SeqsUpTo(RenderedKinds, MaxBlocks) : muContent = Rendered(ContentOf(kinds))
    /\ muMethod \in InsertionMethods
    /\ muSnippet = NoSnippet
    /\ muBoxes = <<>>
    /\ muHtml = muContent
    /\ muCalls = 0
    /\ rcIdle /\ clIdle /\ caIdle /\ anIdle /\ scOff
SpecRendered == InitRendered /\ [][muNext]_vars

InitEditor == edInit /\ acIdle /\ mpIdle /\ pxIdle /\ frIdle /\ pwIdle /\ rcIdle /\ clIdle /\ caIdle /\ muIdle /\ anIdle /\ ppIdle /\ trIdle /\ scIdle
SpecEditor == InitEditor /\ [][edNext]_vars

\* insertIntoContent with the strategy context_match and a snippet
InitContext ==
    /\ \E kinds \in SeqsUpTo(ContextKinds, MaxBlocks) : muContent = ContentOf(kinds)
    /\ muMethod = "context_match"
    /\ muSnippet \in ContextSnippets
    /\ muBoxes = <<>>
    /\ muHtml = muContent
    /\ muCalls = 0
    /\ rcIdle /\ clIdle /\ caIdle /\ anIdle /\ scOff
SpecContext == InitContext /\ [][muNext]_vars

InitMapped ==
    /\ mpInit /\ acIdle /\ edIdle /\ pxIdle /\ frIdle /\ pwIdle
    /\ rcIdle /\ clIdle /\ caIdle /\ muIdle /\ anIdle /\ ppIdle /\ trIdle /\ scIdle
SpecMapped == InitMapped /\ [][mpNext]_vars

InitPush == pwInit /\ pxIdle /\ frIdle /\ localOff
SpecPush == InitPush /\ [][pwNext]_vars

\* single-product calls without manual data, called up to MaxAnalyzeCalls
\* times
InitAnalyzeAgain ==
    /\ anInit
    /\ anOptions.manualAsin = Undefined
    /\ anOptions.manualImage = Undefined
    /\ anOptions.mode # "multi"
    /\ acInit
    /\ edIdle /\ mpIdle
    /\ rcIdle /\ clIdle /\ caIdle /\ muIdle /\ ppIdle /\ trIdle /\ scIdle
    /\ pxIdle /\ frIdle /\ pwIdle
SpecAnalyzeAgain == InitAnalyzeAgain /\ [][anNext \/ acNext]_vars

(***************************************************************************)
(* Properties.                                                             *)
(***************************************************************************)
rcRunning == { k \in DOMAIN rcTask : rcTask[k] = "running" }

\* C2: with concurrency N >= 1, at no moment are more than N worker
\* invocations started and not yet settled.
C2_AtMostNUnsettled ==
    rcConcurrency >= 1 => Cardinality(rcRunning) <= rcConcurrency

\* a second window of a run with N = 2 has both its workers unsettled
C2_Witness ==
    /\ rcConcurrency = 2
    /\ rcItems = 4
    /\ rcI = 2
    /\ rcRunning = {2, 3}

\* C3: a throwing worker does not abort the batch: no worker is invoked twice,
\* the call returns only after every item's worker was invoked exactly once,
\* and the returned list has no entry for an item whose worker threw.
C3_ThrowDoesNotAbort ==
    /\ \A k \in DOMAIN rcCalls : rcCalls[k] <= 1
    /\ rcPc = "done" =>
          /\ \A k \in DOMAIN rcCalls : rcCalls[k] = 1
          /\ \A j \in 1..Len(rcResults) : rcTask[rcResults[j]] # "threw"
          /\ \A k \in DOMAIN rcTask :
                rcTask[k] = "value" => \E j \in 1..Len(rcResults) : rcResults[j] = k

\* the first worker threw, and the call returned with a later window's result
C3_Witness ==
    /\ rcPc = "done"
    /\ rcItems = 3
    /\ rcConcurrency = 1
    /\ rcTask[0] = "threw"
    /\ rcTask[1] = "threw"
    /\ rcResults = <<2>>

\* C5 as stated: a title with a leading digit or containing "best", "top " or
\* "list", classified without HTML, is a listicle of priority high.
C5_AsStated ==
    (clPc = "returned" /\ clHtml = <<>> /\ IsListicle(clTitle)) =>
        (clResult.type = "listicle" /\ clResult.priority = "high")

\* C5 amended: such a title, classified without HTML, has priority high and
\* status opportunity; its type is listicle unless the title also holds a
\* review phrase, and review when it does.
C5_ListicleUnlessReview ==
    (clPc = "returned" /\ clHtml = <<>> /\ IsListicle(clTitle)) =>
        /\ clResult.priority = "high"
        /\ clResult.status = "opportunity"
        /\ clResult.type =
              IF \E i \in 1..Len(clTitle) : Lower(clTitle[i]) \in ReviewWords
              THEN "review" ELSE "listicle"

\* a title with a leading digit and a review phrase was classified
C5_Witness ==
    /\ clPc = "returned"
    /\ clHtml = <<>>
    /\ clTitle = <<"7", "REVIEW">>
    /\ clResult.type = "review"

\* C6: with non-empty HTML, status is monetized exactly when the HTML holds
\* an affiliate marker, and priority is critical (review/listicle, no
\* marker), medium (review/listicle, marker), high (other type, no marker,
\* HTML longer than 1500 characters) or low (every other case).
C6_PhaseTwo ==
    (clPc = "returned" /\ clHtml # <<>>) =>
        LET marked == \E i \in 1..Len(clHtml) : Lower(clHtml[i]) \in AffiliateMarkers
            valuable == clResult.type \in {"review", "listicle"}
        IN  /\ clResult.status = "monetized" <=> marked
            /\ clResult.status \in {"monetized", "opportunity"}
            /\ clResult.priority =
                  IF valuable /\ ~marked THEN "critical"
                  ELSE IF valuable /\ marked THEN "medium"
                  ELSE IF ~marked /\ StrLen(clHtml) > MinContentLength THEN "high"
                  ELSE "low"

\* an info page of exactly 1501 characters without marker is high
C6_Witness ==
    /\ clPc = "returned"
    /\ clResult.type = "info"
    /\ StrLen(clHtml) = MinContentLength + 1
    /\ clResult = [priority |-> "high", type |-> "info", status |-> "opportunity"]

\* the TTL of a key's class, as the specification gives it: AI results 7 days,
\* CMS content 30 minutes, anything else 1 hour
C4_ClassTtl(key) ==
    CASE Head(key) = "ai_" -> 7 * 24 * 60 * 60 * 1000
      [] Head(key) = "wp_" -> 30 * 60 * 1000
      [] OTHER -> 60 * 60 * 1000

\* C4: get(key) returns null and removes the entry when the time since the
\* entry was written exceeds the TTL of the key's class, and returns the
\* stored payload (leaving the entry) otherwise; a set that is stored leaves
\* the entry with the new payload and age zero, whatever entry it replaces.
C4_TtlAndReset ==
    /\ (caLast.op = "get" /\ caLast.before # NoItem) =>
          IF caNow - caLast.before.timestamp > C4_ClassTtl(caLast.key)
          THEN caLast.ret = Null /\ lsStore[caLast.key] = NoItem
          ELSE caLast.ret = caLast.before.data /\ lsStore[caLast.key] = caLast.before
    /\ (caLast.op = "set" /\ caLast.quota # "full_twice") =>
          /\ lsStore[caLast.key].data = caLast.data
          /\ caNow - lsStore[caLast.key].timestamp = 0

\* an entry written 30 minutes after the clock started is read exactly one
\* TTL after that write and yields its payload
C4_Witness ==
    /\ caLast.op = "get"
    /\ caLast.key = <<"wp_", "full_1">>
    /\ caLast.before = [timestamp |-> CACHE_TTL_CONTENT, data |-> "v2"]
    /\ caNow = 2 * CACHE_TTL_CONTENT
    /\ caLast.ret = "v2"

\* the number of product-box opening tags in h
C1_BoxCount(h) == Len(Positions(h, BoxOpenTags))

\* box occurs in h, whole and in one piece (its opening tag is its 4th
\* fragment, after the whitespace and <!-- wp:html --> it starts with)
C1_Occurs(h, box) ==
    \E k \in {p \in 4..Len(h) : IsBoxOpen(h[p])} :
        k - 4 + Len(box) <= Len(h) /\ SubSeq(h, k - 3, k - 4 + Len(box)) = box

\* the product boxes of h: where each <!-- wp:html --> that opens one is,
\* paired with where its <!-- /wp:html --> is
C1_Spans(h) ==
    { <<s, FirstFrom(h, s, {"<!-- /wp:html -->"})>> :
        s \in {p \in 1..Len(h) : /\ h[p] = "<!-- wp:html -->"
                                 /\ SkipWs(h, p + 1) <= Len(h)
                                 /\ IsBoxOpen(h[SkipWs(h, p + 1)])} }

\* what is left of h when every product box and every run of whitespace is
\* taken out: the non-fragment blocks of h, in order
C1_Blocks(h) ==
    LET spans == C1_Spans(h)
        kept == InOrder({k \in 1..Len(h) :
                           h[k] # "ws" /\ \A sp \in spans : k < sp[1] \/ k > sp[2]})
    IN  [n \in 1..Len(kept) |-> h[kept[n]]]

\* C1: after insertIntoContent(insertIntoContent(C, boxA, s), boxB, s) the
\* content holds exactly one product box, that box is boxB, and the
\* non-fragment blocks of C are all there, unchanged and in their order.
C1_InsertTwice ==
    muCalls = 2 =>
        /\ C1_BoxCount(muHtml) = 1
        /\ C1_Occurs(muHtml, muBoxes[2])
        /\ C1_Blocks(muHtml) = C1_Blocks(muContent)

\* two different boxes were inserted in turn into a content of two
\* paragraphs around an older box
C1_Witness ==
    /\ muCalls = 2
    /\ muContent = ContentOf(<<"p", "box", "p">>)
    /\ muMethod = "smart_middle"
    /\ muBoxes[1] # muBoxes[2]
    /\ C1_Blocks(muHtml) = <<"<p>", T(1), "</p>", "<p>", T(3), "</p>">>

\* every run of the provider call threw, the last one with no retry left
C9_AllAttemptsThrew ==
    /\ Len(anLog) = AiRetries + 1
    /\ \A k \in 1..Len(anLog) : anLog[k] \in {"rate_limit", "error"}

C10_Failed ==
    /\ anLog # <<>>
    /\ \/ anLog[Len(anLog)] \in {"rate_limit", "error", "http_error"}
       \/ anCaught

\* C10: whatever way the provider call or the parsing of its output fails,
\* analyzeContentAndFindProduct returns, and with neither a manual identifier
\* nor a manual image given it returns the empty candidate, an empty
\* detected-products list and confidence 0.
C10_EmptyOnFailure ==
    (anPc = "done" /\ C10_Failed /\ ~Truthy(anManualAsin) /\ ~Truthy(anManualImage)) =>
        anResult = [product |-> EmptyProduct, detectedProducts |-> <<>>, confidence |-> 0]

\* the pages whose worker has got an answer of the analysis for a fetched
\* content without affiliate marker
C7_Analysed ==
    { p \in DOMAIN ppAt : /\ ppPage[p] # NoPage
                          /\ ~checkForAffiliateLinks(ppPage[p].content)
                          /\ ppAnalysis[p] # NotAnalyzed }

C7_AutoPublish(p) ==
    /\ ppFullyAuto
    /\ ppAnalysis[p].confidence >= OrDefault(ppConfig.autoPublishThreshold, 85)

\* C7 as stated: such a page is published when the confidence reaches the
\* threshold and the autonomous flag is on, and in every other case it ends
\* found with no publish request.
C7_AsStated ==
    \A p \in C7_Analysed :
        ppAt[p] = "settled" =>
            IF C7_AutoPublish(p)
            THEN ppPosts[p].autoPilotStatus = "published" /\ Len(ppRequests[p]) = 1
            ELSE ppPosts[p].autoPilotStatus = "found" /\ ppRequests[p] = <<>>

C7_Usable(p) == ppAnalysis[p].confidence > 50 /\ ppAnalysis[p].product.asin # ""

\* the one request sent for p carries the content of the page with one
\* product box put into it, and the id of the page
C7_RequestOf(p) ==
    /\ Len(ppRequests[p]) = 1
    /\ ppRequests[p][1].postId = ppPage[p].id
    /\ C1_BoxCount(ppRequests[p][1].content) = 1
    /\ C1_Blocks(ppRequests[p][1].content) = C1_Blocks(ppPage[p].content)

\* C7 (amended): a proposal with confidence <= 50 or without identifier
\* fails the page, with no publish request.  A proposal with confidence > 50
\* and an identifier is published when the autonomous flag is on and the
\* confidence reaches the threshold (85 when none is configured): one request
\* with the mutated content is sent, the page is publishing until the answer
\* and then published if the CMS accepted, failed if it rejected or the
\* request could not be sent.  Otherwise the proposal is stored, the page is
\* found and no publish request is sent.
C7_GateThenPublishOrFound ==
    \A p \in C7_Analysed :
        /\ ppAt[p] \in {"publish", "settled"}
        /\ ~C7_Usable(p) =>
              ppPosts[p].autoPilotStatus = "failed" /\ ppRequests[p] = <<>>
        /\ (C7_Usable(p) /\ ~C7_AutoPublish(p)) =>
              /\ ppPosts[p].autoPilotStatus = "found"
              /\ ppPosts[p].proposedProduct = ppAnalysis[p].product
              /\ ppPosts[p].aiConfidence = ppAnalysis[p].confidence
              /\ ppRequests[p] = <<>>
        /\ (C7_Usable(p) /\ C7_AutoPublish(p)) =>
              CASE ppAt[p] = "publish" ->
                     ppPosts[p].autoPilotStatus = "publishing" /\ C7_RequestOf(p)
                [] ppResponse[p] = "ok" ->
                     /\ ppPosts[p].autoPilotStatus = "published"
                     /\ ppPosts[p].monetizationStatus = "monetized"
                     /\ C7_RequestOf(p)
                [] OTHER ->
                     /\ ppPosts[p].autoPilotStatus = "failed"
                     /\ Len(ppRequests[p]) <= 1

\* a run with the flag on and threshold 90 that has published one page
\* (confidence 90) and stored the proposal of another (confidence 85)
C7_Witness ==
    /\ ppPhase = "done"
    /\ ppFullyAuto
    /\ ppConfig.autoPublishThreshold = 90
    /\ \E p, q \in C7_Analysed :
          /\ ppAnalysis[p].confidence = 90
          /\ ppPosts[p].autoPilotStatus = "published"
          /\ Len(ppRequests[p]) = 1
          /\ ppAnalysis[q].confidence = 85
          /\ ppPosts[q].autoPilotStatus = "found"
          /\ ppRequests[q] = <<>>

\* the worker of page p ran to its end on the page (it did not return on the
\* stop flag)
C8_Processed(p) ==
    /\ ppAt[p] = "settled"
    /\ ppPosts[p].autoPilotStatus \in {"idle", "found", "published", "failed"}
    /\ ppPosts[p].autoPilotStatus = "idle" => ppPosts[p].monetizationStatus = "monetized"

\* C8: a page whose publish request the CMS answers with 401 has had exactly
\* one publish request and is failed from then on, and the run ends only
\* when every target of the batch has been processed.
C8_RejectedPublish ==
    /\ \A p \in DOMAIN ppAt :
          ppResponse[p] = "401" =>
              /\ Len(ppRequests[p]) = 1
              /\ ppAt[p] = "settled"
              /\ ppPosts[p].autoPilotStatus = "failed"
    /\ (ppPhase = "done" /\ \E p \in DOMAIN ppAt : ppResponse[p] = "401") =>
          \A k \in 1..Len(ppTargets) : C8_Processed(ppTargets[k])

\* one page at a time: the first target was rejected with 401, the second
\* was published after it, and the run has ended
C8_Witness ==
    /\ ppPhase = "done"
    /\ ppConfig.concurrencyLimit = 1
    /\ Len(ppTargets) = 2
    /\ ppResponse[ppTargets[1]] = "401"
    /\ ppPosts[ppTargets[1]].autoPilotStatus = "failed"
    /\ ppResponse[ppTargets[2]] = "ok"
    /\ ppPosts[ppTargets[2]].autoPilotStatus = "published"

\* C11: once the operator has set the stop flag during a run, a worker that
\* is invoked afterwards returns at once: its page is neither fetched nor
\* touched (the workers of a window dispatched before go on as they were).
C11_StopShortCircuits ==
    [][(scStop /\ scStatus = "processing" /\ DOMAIN ppAt' = DOMAIN ppAt) =>
          \A p \in DOMAIN ppAt :
              ppAt[p] = "none" =>
                  /\ ppAt'[p] \in {"none", "settled"}
                  /\ ppPosts'[p] = ppPosts[p]]_vars

\* the operations of the pipeline and of the triage in flight for page p
C12_PipelineInFlight(p) ==
    p \in DOMAIN ppAt /\ ppAt[p] \in {"fetch", "analyze", "publish"}

C12_TriageInFlight(p) == p \in DOMAIN trAt /\ trAt[p] = "fetch"

\* C12: at every moment at most one pipeline operation (triage fetch,
\* autonomous fetch, analysis or publish) is in flight for a page.
C12_OneOperationPerUrl ==
    \A p \in 1..MaxPosts : ~(C12_PipelineInFlight(p) /\ C12_TriageInFlight(p))

\* the affiliate marker was found in the content fetched for the page
C13_Marked(page) == page # NoPage /\ HasAffiliatePattern(page.content)

\* the change of the monetizationStatus of a page from one record to the next
C13_AllowedAsStated(old, new, marked) ==
    \/ old.monetizationStatus = new.monetizationStatus
    \/ old.monetizationStatus = "opportunity" /\ new.monetizationStatus = "analyzing"
    \/ old.monetizationStatus = "analyzing" /\ new.monetizationStatus \in {"monetized", "error"}
    \/ old.monetizationStatus = "opportunity" /\ new.monetizationStatus = "monetized" /\ marked

C14_EdgesAsStated(old, new) ==
    \/ old.autoPilotStatus = "idle" /\ new.autoPilotStatus = "analyzing"
    \/ /\ old.autoPilotStatus = "analyzing"
       /\ \/ new.autoPilotStatus \in {"found", "failed"}
          \/ new.autoPilotStatus = "idle" /\ new.monetizationStatus = "monetized"
    \/ old.autoPilotStatus = "found" /\ new.autoPilotStatus = "publishing"
    \/ old.autoPilotStatus = "publishing" /\ new.autoPilotStatus = "published"

\* C14 as stated: during a run the pilotStatus of a page changes only along
\* queued->analyzing, analyzing->found, analyzing->monetized,
\* analyzing->failed, found->publishing and publishing->published.
C14_AsStated ==
    [][DOMAIN ppPosts' = DOMAIN ppPosts =>
          \A p \in DOMAIN ppPosts :
              \/ ppPosts'[p].autoPilotStatus = ppPosts[p].autoPilotStatus
              \/ C14_EdgesAsStated(ppPosts[p], ppPosts'[p])]_vars

\* the edges of the code
C14_Edges(old, new) ==
    \/ old.autoPilotStatus # "published" /\ new.autoPilotStatus = "analyzing"
    \/ /\ old.autoPilotStatus = "analyzing"
       /\ \/ new.autoPilotStatus \in {"found", "failed", "publishing"}
          \/ new.autoPilotStatus = "idle" /\ new.monetizationStatus = "monetized"
    \/ old.autoPilotStatus = "publishing" /\ new.autoPilotStatus \in {"published", "failed"}

\* C14 (amended): during a run the pilotStatus of a page changes only from
\* the status it had (any but published) to analyzing when its worker
\* starts, from analyzing to idle (markers found: the page is monetized),
\* found, failed or publishing, and from publishing to published or failed.
C14_PilotEdges ==
    [][DOMAIN ppPosts' = DOMAIN ppPosts =>
          \A p \in DOMAIN ppPosts :
              \/ ppPosts'[p].autoPilotStatus = ppPosts[p].autoPilotStatus
              \/ C14_Edges(ppPosts[p], ppPosts'[p])]_vars

\* one run has taken a failed page through analyzing and publishing to
\* published and another page through analyzing and publishing to failed
C14_Witness ==
    /\ ppPhase = "done"
    /\ \E p, q \in DOMAIN ppPosts :
          /\ ppSaved[p].autoPilotStatus = "failed"
          /\ ppResponse[p] = "ok"
          /\ ppPosts[p].autoPilotStatus = "published"
          /\ ppSaved[q].autoPilotStatus = "idle"
          /\ ppResponse[q] = "500"
          /\ ppPosts[q].autoPilotStatus = "failed"

C15_IsTarget(p) ==
    ppSaved[p].monetizationStatus = "opportunity" /\ ppSaved[p].autoPilotStatus # "published"

C15_Started == { p \in DOMAIN ppAt : ppAt[p] # "none" }

\* C15: the workers of a run are those of the pages with status opportunity
\* and pilotStatus other than published, each started once the run is over,
\* and no worker is started while a target of strictly higher priority has
\* not been started.
C15_TargetsByPriority ==
    /\ \A p \in C15_Started : C15_IsTarget(p)
    /\ ppPhase \in {"await", "sleep", "done"} =>
          /\ { ppTargets[k] : k \in 1..Len(ppTargets) } = { p \in DOMAIN ppSaved : C15_IsTarget(p) }
          /\ Len(ppTargets) = Cardinality({ p \in DOMAIN ppSaved : C15_IsTarget(p) })
    /\ \A p \in C15_Started : \A q \in DOMAIN ppAt :
          (C15_IsTarget(q) /\ q \notin C15_Started) =>
              priorityScore(ppSaved[q].priority) <= priorityScore(ppSaved[p].priority)
    /\ ppPhase = "done" => \A p \in DOMAIN ppAt : C15_IsTarget(p) => p \in C15_Started

\* one page at a time: the critical page, second in the list, is being
\* fetched while the low page before it has not been started
C15_Witness ==
    /\ ppConfig.concurrencyLimit = 1
    /\ Len(ppSaved) = 2
    /\ ppSaved[1].priority = "low"
    /\ ppSaved[2].priority = "critical"
    /\ ppTargets = <<2, 1>>
    /\ ppAt = <<"none", "fetch">>

C16_Throttled == { k \in 1..Len(ppSink) : ppSink[k].kind = "throttled" }
C16_Flushes == { k \in 1..Len(ppSink) : ppSink[k].kind = "flush" }

\* C16: at most one timer of triggerUIUpdate is pending; when a throttled
\* emission is made at least 500 ms have passed since the one before it; a
\* run that has not ended has made no flush, and one that has ended has made
\* exactly one, as its last emission, with the final record of every page,
\* and has no timer pending.
C16_CoalescedThenFlushed ==
    /\ Len(ppTimer) <= 1
    /\ \A k \in C16_Throttled : ppSink[k].since >= TimerDelay
    /\ ppPhase # "done" => C16_Flushes = {}
    /\ ppPhase = "done" =>
          /\ C16_Flushes = {Len(ppSink)}
          /\ ppSink[Len(ppSink)].posts = ppPosts
          /\ Len(ppPosts) = Len(ppSaved)
          /\ scPosts = ppPosts
          /\ ppTimer = <<>>

\* a run of two pages has made two throttled emissions and then the flush,
\* a timer being pending when the run ended
C16_Witness ==
    /\ ppPhase = "done"
    /\ Len(ppSaved) = 2
    /\ Len(ppSink) = 3
    /\ C16_Throttled = {1, 2}
    /\ ppSince < TimerDelay

\* the pages of the analysis that phase 1 types review or listicle
C17_Valuable(p) == PostTypeOf(trArg[p].title) \in {"review", "listicle"}

\* C17: after an analysis of pages without content snapshot whose fetches
\* all succeeded, a review/listicle page is medium/monetized when its fetched
\* HTML holds an affiliate marker and critical/opportunity when it holds
\* none, and every other page is low/opportunity.
C17_FinalState ==
    ( /\ trPhase = "done"
      /\ \A p \in DOMAIN trArg : trArg[p].content = <<>>
      /\ \A p \in DOMAIN trArg : C17_Valuable(p) => trPage[p] # NoPage ) =>
        \A p \in DOMAIN trMap :
            IF ~C17_Valuable(p)
            THEN trMap[p].priority = "low" /\ trMap[p].monetizationStatus = "opportunity"
            ELSE IF HasAffiliatePattern(trPage[p].content)
            THEN trMap[p].priority = "medium" /\ trMap[p].monetizationStatus = "monetized"
            ELSE trMap[p].priority = "critical" /\ trMap[p].monetizationStatus = "opportunity"

\* the relays of call c that did not answer ok
C18_Failed(call) == { k \in 1..Len(call.tried) : call.tried[k].outcome # "ok" }

\* C18: a call tries the relay that last succeeded before it (relay 0 when
\* none has) and then the other relays in their fixed order, each at most
\* once; it returns the first response that is ok, that relay being the
\* preferred one from then on, and raises the error only when all relays
\* have failed.
C18_StickyRelayOrder ==
    /\ pxPreferred = LastSucceeded(pxLog, Len(pxLog))
    /\ \A c \in DOMAIN pxCalls :
          LET call == pxCalls[c]
          IN  /\ Len(call.ordered) = ProxyCount
              /\ { call.ordered[k] : k \in 1..ProxyCount } = { proxies[k] : k \in 1..ProxyCount }
              /\ call.ordered[1] = LastSucceeded(pxLog, call.before)
              /\ \A j, k \in 2..ProxyCount : j < k => call.ordered[j] < call.ordered[k]
              /\ Len(call.tried) <= ProxyCount
              /\ \A k \in 1..Len(call.tried) : call.tried[k].relay = call.ordered[k]
              /\ call.result = "pending" =>
                    C18_Failed(call) = 1..Len(call.tried) /\ Len(call.tried) < ProxyCount
              /\ call.result = "response" =>
                    /\ call.tried # <<>>
                    /\ C18_Failed(call) = 1..(Len(call.tried) - 1)
                    /\ \E n \in (call.before + 1)..Len(pxLog) :
                          pxLog[n] = call.tried[Len(call.tried)].relay
              /\ call.result = "error" => C18_Failed(call) = 1..ProxyCount

\* a call found relay 0 failing, relay 1 answering not ok and relay 2 ok;
\* the call after it began with relay 2 and failed on every relay
C18_Witness ==
    /\ Len(pxCalls) = 2
    /\ pxCalls[1].result = "response"
    /\ Len(pxCalls[1].tried) = 3
    /\ pxCalls[1].tried[1].outcome = "throws"
    /\ pxCalls[1].tried[2].outcome = "notOk"
    /\ pxCalls[2].ordered = <<2, 0, 1>>
    /\ pxCalls[2].result = "error"
    /\ pxPreferred = 2


\* the requests of the call that were made and did not give the content
C19_Tried(path) == \E k \in 1..Len(frPaths) : frPaths[k].path = path

\* C19: a call that was given a post URL throws only after the fetch of the
\* public page has been tried and has failed, and what a call throws is the
\* error that names the permalink configuration.
C19_ErrorOnlyWhenExhausted ==
    (frPc = "done" /\ frResult.kind = "error") =>
        /\ frResult.message = PermalinkError
        /\ frPostUrl # NoUrl => C19_Tried("page")


\* C20: a call that got a 401 or a 403 throws the authentication failure,
\* one that got another status that is not ok throws the generic error
\* with the status, and one whose fetch was rejected throws the guidance
\* that names the origin of the caller.
C20_FailureClasses ==
    (pwPc = "done" /\ pwOutcome.kind # "none") =>
        /\ pwOutcome.kind = "status" /\ pwOutcome.status \in {401, 403} =>
              /\ pwResult.kind = "error"
              /\ pwResult.message = <<"WP Auth Failed (", StatusText(pwOutcome.status), ")">>
        /\ pwOutcome.kind = "status" /\ ~IsOk(pwOutcome.status)
              /\ pwOutcome.status \notin {401, 403} =>
              /\ pwResult.kind = "error"
              /\ pwResult.message = <<"WP Error: ", StatusText(pwOutcome.status)>>
        /\ pwOutcome.kind = "rejects" =>
              /\ pwResult.kind = "error"
              /\ pwResult.message =
                    <<"CORS Error: Add '">> \o OriginOf(pwLocation) \o <<"' to WP CORS Plugin.">>


\* the first call returned a candidate of the provider
C21_Successful(result) ==
    /\ result # NoAnalysis
    /\ result.confidence > 0
    /\ result.detectedProducts = <<result.product>>

\* C21: a call made after a call with the same arguments has returned a
\* single-product result of the provider makes no provider call, and returns
\* that result.
C21_SecondCallFromCache ==
    (acCalls >= 2 /\ C21_Successful(acFirst)) =>
        /\ anLog = <<>>
        /\ anPc = "done" => anResult = acFirst


\* the runs of the provider call that ended in a rate limit and were
\* followed by a wait
C22_RateLimited == { k \in 1..Len(anLog) : k <= AiRetries /\ anLog[k] = "rate_limit" }

\* the provider call failed for the last time
C22_LastFailed ==
    /\ anPc = "done"
    /\ anLog # <<>>
    /\ anLog[Len(anLog)] \in {"rate_limit", "error", "http_error"}

\* C22: the provider is invoked at most AiRetries + 1 times per call; the
\* wait is AiDelay doubled once for every rate limit met so far; and when
\* the last run of the provider call has failed the error is raised, so
\* that the catch block of the caller runs.
C22_BoundedBackoff ==
    /\ Len(anLog) <= AiRetries + 1
    /\ anDelay = AiDelay * (2 ^ Cardinality(C22_RateLimited))
    /\ C22_LastFailed => anCaught

\* C23: a run of the provider call is followed by a wait and another run
\* only when it ended in a rate limit.
C23_OnlyRateLimitRetried ==
    /\ \A k \in 1..(Len(anLog) - 1) : anLog[k] = "rate_limit"
    /\ anPc = "sleep" => anLog[Len(anLog)] = "rate_limit"


\* the pages of the run whose fetched content holds an affiliate marker
C24_Marked ==
    { p \in DOMAIN ppPage : ppPage[p] # NoPage /\ HasAffiliatePattern(ppPage[p].content) }

\* C24: in an autonomous run a page whose fetched content holds an affiliate
\* marker is recorded monetized (pilotStatus idle) and its worker has
\* returned: no analysis was asked for it and no publish request was sent.
C24_MonetizedAndStop ==
    \A p \in C24_Marked :
        /\ ppPosts[p].monetizationStatus = "monetized"
        /\ ppPosts[p].autoPilotStatus = "idle"
        /\ ppAt[p] = "settled"
        /\ ppAnalysis[p] = NotAnalyzed
        /\ ppRequests[p] = <<>>
        /\ ppResponse[p] = "none"

\* a run has found markers in one page and has published another
C24_Witness ==
    /\ ppPhase = "done"
    /\ \E p \in C24_Marked : \E q \in DOMAIN ppPosts \ C24_Marked :
          /\ ppSaved[p].monetizationStatus = "opportunity"
          /\ ppPosts[q].autoPilotStatus = "published"


\* the text of the fragment that an earlier insertion left in the content
C25_StaleText == T(90)

\* C25: after insertIntoContent on a content that holds a fragment without
\* its <!-- wp:html --> wrapper, the result holds exactly one fragment, the
\* new one, and nothing of the old fragment.
C25_BareBoxRemoved ==
    (muCalls >= 1 /\ C1_BoxCount(muContent) >= 1 /\ C1_Spans(muContent) = {}) =>
        /\ C1_BoxCount(muHtml) = 1
        /\ \A k \in 1..Len(muHtml) : muHtml[k] # C25_StaleText


\* C26: no publish request is sent for the unresolved id 0.
C26_NoPublishOfUnresolved == pwPc = "fetch" => pwPostId # NoId


\* from the component as mounted no run gets to the publish branch
NeverPublishing ==
    /\ ~ppFullyAuto
    /\ \A p \in DOMAIN ppAt : ppAt[p] # "publish" /\ ppRequests[p] = <<>>
    /\ \A p \in DOMAIN ppPosts : ppPosts[p].autoPilotStatus \notin {"publishing", "published"}

\* C27: the publish branch is reachable for the operator: a page whose
\* proposal has its confidence at or above the threshold of the
\* configuration goes on to the publish request, it is not left as found.
C27_PublishReachable ==
    \A p \in DOMAIN ppPosts :
        ~ /\ ppPosts[p].autoPilotStatus = "found"
          /\ ppPosts[p].aiConfidence >= OrDefault(ppConfig.autoPublishThreshold, 85)


\* C28: the stop request of an earlier run does not leak into a later one:
\* a run that is under way reads a stop flag that was clear when it started,
\* so its workers process their targets.
C28_RunStartsCleared ==
    ppPhase \in {"await", "sleep", "done"} => ~ppStopSignal


\* C29: when a priority analysis and an autonomous run that overlapped have
\* both finished, the state sink holds for every page the outcome the run
\* recorded together with the classification the analysis recorded.
C29_NoLostUpdate ==
    (ppPhase = "done" /\ trPhase = "done") =>
        \A p \in DOMAIN scPosts :
            /\ scPosts[p].autoPilotStatus = ppPosts[p].autoPilotStatus
            /\ scPosts[p].postType = trMap[p].postType
            /\ ppPosts[p].monetizationStatus # "monetized" =>
                   scPosts[p].priority = trMap[p].priority


\* C30: a wipe confirmed while a run or an analysis is in progress is final:
\* once the state holds no pages, no emission of a handler puts pages back.
C30_WipeIsFinal == [][scPosts = <<>> => scPosts' = <<>>]_vars


\* C31: what the editor shows for the post it is on never comes from the
\* initialisation of a post the operator has switched away from: the product
\* and the manual identifier are those of the post shown, or none.
C31_NothingOfSupersededInit ==
    /\ edProduct # Nothing => edProduct.of = edPost
    /\ edManualAsin \in {NoPost, edPost}


\* C32: phase 2 of the triage fetches content only for the pages that phase 1
\* typed review or listicle, whose status is opportunity and that have no
\* content snapshot.
C32_OnlyHighValueFetched ==
    \A p \in DOMAIN trAt :
        (trAt[p] = "fetch" \/ trPage[p] # NoPage) =>
            LET one == PhaseOne(trArg[p])
            IN  /\ one.postType \in {"review", "listicle"}
                /\ one.monetizationStatus = "opportunity"
                /\ trArg[p].content = <<>>

\* a page is being fetched while another page of the list is left alone
C32_Witness ==
    \E p, q \in DOMAIN trAt :
        /\ trAt[p] = "fetch"
        /\ trAt[q] = "none" /\ trPhase = "await"
        /\ \A k \in DOMAIN trTargets : trTargets[k] # q


\* the boundaries of a content: the ends of its blocks when it is in the
\* block dialect, the ends of its paragraphs when it is plain; and its
\* headings
C33_IsBlockDialect(h) == \E k \in 1..Len(h) : h[k] \in WpOpenTags
C33_Boundaries(h) ==
    IF C33_IsBlockDialect(h) THEN Positions(h, WpBlockEndTags) ELSE Positions(h, {"</p>"})
C33_Headings(h) ==
    IF C33_IsBlockDialect(h) THEN Positions(h, {"<!-- /wp:heading -->"})
    ELSE Positions(h, {"</h2>"})
C33_Place(h, method) ==
    LET b == C33_Boundaries(h)
        hd == C33_Headings(h)
    IN  CASE method = "top" -> b[1]
          [] method = "bottom" -> Len(h)
          [] method = "smart_middle" -> b[(Len(b) \div 2) + 1]
          [] OTHER -> IF Len(hd) > 0 THEN hd[1] ELSE b[1]

\* C33: with n >= 1 boundaries the fragment goes right after the first
\* boundary for top, to the end for bottom, right after the boundary of index
\* floor(n/2) for smart_middle, right after the first heading for after_h2
\* (the place of top without a heading); with no boundary it is appended.
C33_PlacedByMethod ==
    (muCalls = 1 /\ muMethod \in {"top", "bottom", "smart_middle", "after_h2"}) =>
        LET h == CleanHtml(muContent)
            box == muBoxes[1]
            pos == C33_Place(h, muMethod)
        IN  IF Len(C33_Boundaries(h)) = 0
            THEN muHtml = h \o <<Ws>> \o box
            ELSE /\ Len(muHtml) = Len(h) + Len(box) + 2
                 /\ SubSeq(muHtml, 1, pos) = SubSeq(h, 1, pos)
                 /\ SubSeq(muHtml, pos + 2, pos + 1 + Len(box)) = box
                 /\ SubSeq(muHtml, pos + 3 + Len(box), Len(muHtml)) = SubSeq(h, pos + 1, Len(h))

\* a fragment put in the middle of three boundaries
C33_Witness ==
    /\ muCalls = 1 /\ muMethod = "smart_middle"
    /\ Len(C33_Boundaries(CleanHtml(muContent))) = 3
    /\ SubSeq(muHtml, Len(muHtml) - Len(muBoxes[1]), Len(muHtml) - 1) # muBoxes[1]


\* the headings of h whose text holds the snippet, both with their
\* punctuation stripped: the positions of their closing tags
C34_Matching(h, snippet) ==
    {k + 2 : k \in {j \in 1..Len(h) : /\ j + 2 <= Len(h)
                                       /\ h[j] \in {"<h2>", "<h3>"}
                                       /\ StripPunct(h[j + 1]) = StripPunct(snippet)
                                       /\ h[j + 2] \in {"</h2>", "</h3>"}}}

\* html is h with box put in after position pos, runs of whitespace aside
C34_NoWs(s) == SelectSeq(s, LAMBDA f : f # Ws)
C34_BoxAt(h, box, pos, html) ==
    C34_NoWs(html) = C34_NoWs(SubSeq(h, 1, pos) \o box \o SubSeq(h, pos + 1, Len(h)))

\* C34: with context_match and a snippet the fragment goes right after the
\* heading whose text holds the snippet (case and punctuation aside); when no
\* heading matches it is appended at the end of the content.
C34_AfterMatchingHeading ==
    (muCalls = 1 /\ muMethod = "context_match" /\ muSnippet # NoSnippet) =>
        LET h == CleanHtml(muContent)
            box == muBoxes[1]
            S == C34_Matching(h, muSnippet)
        IN  IF S # {}
            THEN \E pos \in S : C34_BoxAt(h, box, pos, muHtml)
            ELSE C34_BoxAt(h, box, Len(h), muHtml)


\* the sources of the image in the order of their priority, each with what
\* it supplies (nothing when it is unavailable): the manual image, the URL
\* constructed from the identifier of the product, the URL of the model, the
\* fallback image, the placeholder
C35_Sources ==
    << IF StartsWithHttp(mpOptions.manualImage) THEN mpOptions.manualImage ELSE <<>>,
       constructAmazonImageUrl(mpProduct.asin),
       IF StartsWithHttp(mpD.imageUrl) THEN mpD.imageUrl ELSE <<>>,
       IF Truthy(mpOptions.fallbackImage) THEN mpOptions.fallbackImage ELSE <<>>,
       Placeholder >>

\* C35: the image of the candidate is that of the first source, in the order
\* of priority, that is available.
C35_ImageByPriority ==
    mpPc \in {"mapped", "done"} =>
        LET first == FirstIn({k \in 1..Len(C35_Sources) : C35_Sources[k] # <<>>})
        IN  mpProduct.imageUrl = C35_Sources[first]

\* C36: the confidence returned is the one the response carries, whatever
\* its value from 0 to 100, and the default only when it carries none.
C36_ReportedConfidence ==
    mpPc = "done" =>
        mpConfidence = IF mpD.confidence = NoConfidence THEN 85 ELSE mpD.confidence


\* C37: a cached page older than the content TTL of 30 minutes is not served
\* by a later fetchPageContent, which fetches the page again instead.
C37_ContentTtl ==
    (/\ caLast.op = "fetchPageContent"
     /\ caLast.before # NoItem
     /\ caNow - caLast.before.timestamp > 30 * 60 * 1000)
        => caLast.network

\* C39: fetchPageContent(u) never resolves with content that was fetched and
\* cached for another URL.
C39_OwnPage ==
    (caLast.op = "fetchPageContent" /\ caLast.ret # "throws")
        => caLast.ret = PageAt(caLast.url)


\* the number of calls of one kind that a CacheService call made
C38_Count(calls, kind) == Cardinality({ k \in DOMAIN calls : calls[k] = kind })

\* C38: CacheService.set never raises; when the write fails for lack of
\* capacity the whole store is cleared and the write is made exactly once
\* more, after the clearing, and when that write fails too the failure is
\* swallowed and the store is left empty.  A write that succeeds at once
\* clears nothing.
C38_SetNeverRaises ==
    caLast.op = "set" =>
        /\ ~caLast.raised
        /\ caLast.quota = "ok" =>
              /\ C38_Count(caLast.calls, "setItem") = 1
              /\ C38_Count(caLast.calls, "clear") = 0
              /\ lsStore[caLast.key] = [timestamp |-> caNow, data |-> caLast.data]
        /\ caLast.quota # "ok" =>
              /\ C38_Count(caLast.calls, "setItem") = 2
              /\ C38_Count(caLast.calls, "clear") = 1
              /\ \E c \in DOMAIN caLast.calls :
                    /\ caLast.calls[c] = "clear"
                    /\ \E a \in 1..(c - 1) : caLast.calls[a] = "setItem"
                    /\ \E b \in (c + 1)..Len(caLast.calls) : caLast.calls[b] = "setItem"
              /\ \A k \in DOMAIN lsStore : k # caLast.key => lsStore[k] = NoItem
              /\ lsStore[caLast.key] =
                    IF caLast.quota = "full_once"
                    THEN [timestamp |-> caNow, data |-> caLast.data] ELSE NoItem

\* a write over an entry that is in the store fails twice: nothing is raised
\* and the store is empty
C38_Witness ==
    /\ caLast.op = "set"
    /\ caLast.quota = "full_twice"
    /\ caLast.before # NoItem
    /\ ~caLast.raised
    /\ \A k \in DOMAIN lsStore : lsStore[k] = NoItem


=============================================================================
